---- MODULE Spec2Model ----
(***************************************************************************)
(* Amortization and payment ledger engine of libramoneda-backend.          *)
(*                                                                         *)
(* Money is held in cents (Decimal with two places = integer cents); a     *)
(* quantize(Decimal('1'), ROUND_HALF_UP) result is a multiple of 100.      *)
(* A rate is the exact rational [n, d] of the fraction the code computes   *)
(* with `rate_percent / Decimal('100')`, in lowest terms (5.0000 % is      *)
(* [n |-> 1, d |-> 20]).  A nullable numeric field that the code only ever *)
(* tests for truthiness holds 0 for None; NoDate is the None of a date.    *)
(* credit_numbers is the column credit_number of the table of credits, in  *)
(* insertion order; a number is held as its year and its digit string.     *)
(***************************************************************************)
EXTENDS Integers, Sequences, FiniteSets, TLC

VARIABLES credit, payments, transactions, today, raised, reqs, credit_numbers

vars == <<credit, payments, transactions, today, raised, reqs, credit_numbers>>

----------------------------------------------------------------------------
(* Bounds of the model *)

\* the longest term of a generated schedule
MaxTerm == 3
\* the longest term of the credit followed through its payments
MaxLedgerTerm == 2
\* the number of cash receipts recorded
MaxTx == 2

\* the longest term pmt is called with at rate 0
MaxPmtTerm == 6

\* the longest term of a credit in the schedules of long credits
MaxLongTerm == 34

\* the most credits the table of credits holds
MaxCredits == 3

\* the last year the clock reaches
LastYear == 2025

----------------------------------------------------------------------------
(* Decimal arithmetic *)

Abs(x) == IF x < 0 THEN -x ELSE x

Min(a, b) == IF a <= b THEN a ELSE b

\* (num / den).quantize(Decimal('1'), rounding=ROUND_HALF_UP), den > 0:
\* nearest integer, ties away from zero
RoundHalfUp(num, den) ==
    LET a == Abs(num)
        q == a \div den
        r == a % den
        m == IF 2 * r >= den THEN q + 1 ELSE q
    IN  IF num < 0 THEN -m ELSE m

\* x.quantize(Decimal('1'), rounding=ROUND_HALF_UP) for x in cents
Quantize(x) == 100 * RoundHalfUp(x, 100)

RECURSIVE Pow(_, _)
Pow(b, e) == IF e = 0 THEN 1 ELSE b * Pow(b, e - 1)

\* Exact arithmetic on naturals beyond the native integers, for the powers
\* (1 + rate) ** n of long terms: a number is the sequence of its digits in
\* base 10000, least significant first.

\* digit i of a, 0 beyond its length
Limb(a, i) == IF i <= Len(a) THEN a[i] ELSE 0

\* a without its lowest digit
Higher(a) == IF a = << >> THEN << >> ELSE Tail(a)

\* a * m + carry, for a native m
RECURSIVE BigTimes(_, _, _)
BigTimes(a, m, carry) ==
    IF a = << >>
    THEN (IF carry = 0 THEN << >>
          ELSE <<carry % 10000>> \o BigTimes(<< >>, m, carry \div 10000))
    ELSE <<(Head(a) * m + carry) % 10000>>
         \o BigTimes(Tail(a), m, (Head(a) * m + carry) \div 10000)

\* a + b + carry
RECURSIVE BigPlus(_, _, _)
BigPlus(a, b, carry) ==
    IF a = << >> /\ b = << >>
    THEN (IF carry = 0 THEN << >> ELSE <<carry>>)
    ELSE <<(Limb(a, 1) + Limb(b, 1) + carry) % 10000>>
         \o BigPlus(Higher(a), Higher(b), (Limb(a, 1) + Limb(b, 1) + carry) \div 10000)

\* a - b - borrow, for a >= b + borrow
RECURSIVE BigMinus(_, _, _)
BigMinus(a, b, borrow) ==
    IF a = << >> THEN << >>
    ELSE <<(Head(a) - Limb(b, 1) - borrow + 10000) % 10000>>
         \o BigMinus(Tail(a), Higher(b),
                     IF Head(a) - Limb(b, 1) - borrow < 0 THEN 1 ELSE 0)

\* a <= b, compared from digit i down
RECURSIVE BigLeqFrom(_, _, _)
BigLeqFrom(a, b, i) ==
    IF i = 0 THEN TRUE
    ELSE IF Limb(a, i) # Limb(b, i) THEN Limb(a, i) < Limb(b, i)
    ELSE BigLeqFrom(a, b, i - 1)

BigLeq(a, b) == BigLeqFrom(a, b, IF Len(a) > Len(b) THEN Len(a) ELSE Len(b))

\* b ** e
RECURSIVE BigPower(_, _)
BigPower(b, e) == IF e = 0 THEN <<1>> ELSE BigTimes(BigPower(b, e - 1), b, 0)

RECURSIVE BigQuotient(_, _, _, _)

\* the search of BigQuotient at the middle of lo..hi
QuotientAt(num, den, lo, hi, mid) ==
    IF BigLeq(BigTimes(den, mid, 0), num) THEN BigQuotient(num, den, mid, hi)
    ELSE BigQuotient(num, den, lo, mid - 1)

\* the greatest x in lo..hi with x * den <= num
BigQuotient(num, den, lo, hi) ==
    IF lo = hi THEN lo ELSE QuotientAt(num, den, lo, hi, (lo + hi + 1) \div 2)

\* num / den rounded half up, the result being at most hi:
\* the greatest x with x * 2 den <= 2 num + den
BigRoundHalfUp(num, den, hi) ==
    BigQuotient(BigPlus(BigTimes(num, 2, 0), den, 0), BigTimes(den, 2, 0), 0, hi)

ZeroRate == [n |-> 0, d |-> 1]

----------------------------------------------------------------------------
(* Calendar: datetime.date and calendar.monthrange *)

NoDate == [year |-> 0, month |-> 0, day |-> 0]

Date(y, m, d) == [year |-> y, month |-> m, day |-> d]

IsLeap(y) == (y % 4 = 0 /\ y % 100 # 0) \/ y % 400 = 0

\* monthrange(year, month)[1]
monthrange(y, m) ==
    IF m = 2 THEN (IF IsLeap(y) THEN 29 ELSE 28)
    ELSE IF m \in {4, 6, 9, 11} THEN 30 ELSE 31

RECURSIVE DaysBeforeMonth(_, _)
DaysBeforeMonth(y, m) ==
    IF m <= 1 THEN 0 ELSE monthrange(y, m - 1) + DaysBeforeMonth(y, m - 1)

RECURSIVE DaysBeforeYear(_)
DaysBeforeYear(y) ==
    IF y <= 2024 THEN 0
    ELSE (IF IsLeap(y - 1) THEN 366 ELSE 365) + DaysBeforeYear(y - 1)

\* date.toordinal(), counted from 2024-01-01 = 1
Ordinal(dt) == DaysBeforeYear(dt.year) + DaysBeforeMonth(dt.year, dt.month) + dt.day

\* (a - b).days
DaysBetween(a, b) == Ordinal(a) - Ordinal(b)

\* last day of the month after (y, m)
EndOfNextMonth(y, m) ==
    LET next_month == IF m = 12 THEN 1 ELSE m + 1
        next_year == IF m = 12 THEN y + 1 ELSE y
    IN  Date(next_year, next_month, monthrange(next_year, next_month))

----------------------------------------------------------------------------
(* Choices *)

\* the members of CreditStatus; PAST_DUE is not one of them
CreditStatus ==
    {"PENDING", "APPROVED", "REJECTED", "DISBURSED", "ACTIVE", "PAID",
     "DEFAULTED", "PAID_OFF", "CANCELLED"}

----------------------------------------------------------------------------
(* InterestRateConfig rows (one period, active) *)

RateConfigs ==
    { [id |-> 1, year |-> 2024, month |-> 1,
       base_interest_rate |-> [n |-> 1, d |-> 20],
       aval_rate_libranza |-> [n |-> 2, d |-> 25],
       aval_rate_high |-> [n |-> 3, d |-> 50],
       aval_rate_low |-> [n |-> 2, d |-> 25],
       iva_rate |-> [n |-> 19, d |-> 100],
       is_active |-> TRUE,
       effective_date |-> Date(2024, 1, 1)],
      [id |-> 2, year |-> 2024, month |-> 2,
       base_interest_rate |-> [n |-> 1, d |-> 50],
       aval_rate_libranza |-> [n |-> 7, d |-> 100],
       aval_rate_high |-> [n |-> 1, d |-> 25],
       aval_rate_low |-> [n |-> 1, d |-> 10],
       iva_rate |-> [n |-> 4, d |-> 25],
       is_active |-> FALSE,
       effective_date |-> Date(2024, 2, 1)] }

\* .filter(year=..., month=..., is_active=True)
ExactConfigs(configs, reference_date) ==
    {c \in configs : /\ c.year = reference_date.year
                      /\ c.month = reference_date.month
                      /\ c.is_active}

\* .filter(effective_date__lte=reference_date, is_active=True)
PreviousConfigs(configs, reference_date) ==
    {c \in configs : /\ Ordinal(c.effective_date) <= Ordinal(reference_date)
                      /\ c.is_active}

\* .order_by('-effective_date').first() on a non-empty set of rows
MostRecent(configs) ==
    CHOOSE c \in configs :
       \A o \in configs : Ordinal(o.effective_date) <= Ordinal(c.effective_date)

\* InterestRateConfig.get_rate_for_date on the table `configs`: the id of the
\* row returned, 0 for None
rate_for_date(configs, reference_date) ==
    IF ExactConfigs(configs, reference_date) # {}
    THEN (CHOOSE c \in ExactConfigs(configs, reference_date) : TRUE).id
    ELSE IF PreviousConfigs(configs, reference_date) # {}
         THEN MostRecent(PreviousConfigs(configs, reference_date)).id
         ELSE 0

\* InterestRateConfig.get_rate_for_date: the id of the row, 0 for None
get_rate_for_date(reference_date) == rate_for_date(RateConfigs, reference_date)

RateConfigById(i) == CHOOSE c \in RateConfigs : c.id = i

----------------------------------------------------------------------------
(* Credit: installment calculator and schedule builder *)

\* a pmt that drops the fraction of the instalment
pmtTruncated(principal, rate, n) ==
    IF rate.n = 0
    THEN 100 * (principal \div (100 * n))
    ELSE 100 * (((principal \div 100) * rate.n * Pow(rate.n + rate.d, n))
                \div (rate.d * (Pow(rate.n + rate.d, n) - Pow(rate.d, n))))

\* P * (rate * (1 + rate) ** n) / ((1 + rate) ** n - 1) rounded half up, in
\* exact arithmetic: with rate = rn / rd it is
\* P * rn * (rn + rd) ** n / (rd * ((rn + rd) ** n - rd ** n)), at most 2 P
pmt_exact(principal, rate, n) ==
    BigRoundHalfUp(
        BigTimes(BigTimes(BigPower(rate.n + rate.d, n), principal, 0), rate.n, 0),
        BigTimes(BigMinus(BigPower(rate.n + rate.d, n), BigPower(rate.d, n), 0),
                 rate.d, 0),
        2 * principal + 1)

\* Credit.pmt; principal is a whole amount (every caller passes a quantized P).
\* Up to 4 months the powers fit the native integers.
pmt(principal, rate, n) ==
    IF rate.n = 0
    THEN 100 * RoundHalfUp(principal, 100 * n)
    ELSE IF n > 4
    THEN 100 * pmt_exact(principal \div 100, rate, n)
    ELSE LET growth == Pow(rate.n + rate.d, n)
             num == (principal \div 100) * rate.n * growth
             den == rate.d * (growth - Pow(rate.d, n))
         IN  100 * RoundHalfUp(num, den)

\* the assignments that end calculate_and_save_payments
MonthlyStored(self, pay_base, aval_monthly, iva_aval_monthly) ==
    [self EXCEPT !.monthly_payment_base = pay_base,
                 !.monthly_aval = aval_monthly,
                 !.monthly_iva_aval = iva_aval_monthly,
                 !.monthly_payment =
                     Quantize(pay_base + aval_monthly + iva_aval_monthly)]

\* iva_aval_monthly = (aval_monthly * iva).quantize(...)
MonthlyFromAval(self, pay_base, aval_monthly) ==
    MonthlyStored(self, pay_base, aval_monthly,
                  100 * RoundHalfUp(aval_monthly * self.iva_rate.n,
                                    100 * self.iva_rate.d))

\* Credit.calculate_and_save_payments: pay_base = pmt(P, i_base, n),
\* aval_monthly = (pmt(P, i_aval, n) - pay_base).quantize(...)
calculate_and_save_payments(self) ==
    MonthlyFromAval(self,
        pmt(Quantize(self.approved_amount), self.base_interest_rate,
            self.approved_term),
        Quantize(pmt(Quantize(self.approved_amount), self.aval_rate,
                     self.approved_term)
                 - pmt(Quantize(self.approved_amount), self.base_interest_rate,
                       self.approved_term)))

\* a deadline on the company's payment day whatever the length of the month
calculate_payment_deadline_unclamped(self, due_date, company_payment_day) ==
    IF self.credit_type # "LIBRANZA" \/ company_payment_day = 0
    THEN due_date
    ELSE LET nx == EndOfNextMonth(due_date.year, due_date.month)
         IN  Date(nx.year, nx.month, company_payment_day)

\* Credit._calculate_payment_deadline
calculate_payment_deadline(self, due_date, company_payment_day) ==
    IF self.credit_type # "LIBRANZA" \/ company_payment_day = 0
    THEN due_date
    ELSE LET nx == EndOfNextMonth(due_date.year, due_date.month)
         IN  Date(nx.year, nx.month, Min(company_payment_day, nx.day))

\* saldo * i0 * Decimal(dias) / Decimal('30'), quantized to a whole amount
PeriodInterest(saldo, i0, dias) ==
    100 * RoundHalfUp(saldo * i0.n * dias, 100 * i0.d * 30)

\* Payment(...) as built by generate_payment_schedule, defaults included
NewPayment(number, due, deadline, dias, capital, interest, aval, iva, total, before) ==
    [payment_number |-> number,
     due_date |-> due,
     payment_deadline |-> deadline,
     payment_date |-> NoDate,
     period_days |-> dias,
     scheduled_capital |-> capital,
     scheduled_interest |-> interest,
     scheduled_aval |-> aval,
     scheduled_iva_aval |-> iva,
     scheduled_total |-> total,
     paid_capital |-> 0,
     paid_interest |-> 0,
     paid_aval |-> 0,
     paid_iva_aval |-> 0,
     paid_late_interest |-> 0,
     paid_total |-> 0,
     late_interest_rate |-> ZeroRate,
     calculated_late_interest |-> 0,
     applied_late_interest |-> 0,
     late_interest_calculated_date |-> NoDate,
     late_interest_applied_date |-> NoDate,
     balance_before |-> before,
     status |-> "PENDING"]

\* company_payment_day as generate_payment_schedule reads it
CompanyPaymentDay(self) ==
    IF self.credit_type = "LIBRANZA" THEN self.company_payment_day ELSE 0

\* Payment.objects.create(...) of installment `number`:
\* valor_cuota = (abono_cap + aval + iva_aval + interes).quantize(...)
Installment(self, number, fecha_final, dias, abono_cap, interes, saldo) ==
    NewPayment(number, fecha_final,
               calculate_payment_deadline(self, fecha_final, CompanyPaymentDay(self)),
               dias, abono_cap, interes, self.monthly_aval, self.monthly_iva_aval,
               Quantize(abono_cap + self.monthly_aval + self.monthly_iva_aval
                        + interes),
               saldo)

\* a first period that always ends with the month of disbursement
FirstDueDateSameMonth(start_date) ==
    Date(start_date.year, start_date.month,
         monthrange(start_date.year, start_date.month))

\* fecha_final_1: the end of the month of disbursement up to day 15, the
\* end of the next month after it
FirstDueDate(start_date) ==
    IF start_date.day <= 15
    THEN Date(start_date.year, start_date.month,
              monthrange(start_date.year, start_date.month))
    ELSE EndOfNextMonth(start_date.year, start_date.month)

\* max(Decimal('0'), min(formula, saldo))
ClampCapital(formula, saldo) ==
    IF formula < 0 THEN 0 ELSE IF formula > saldo THEN saldo ELSE formula

\* abono_cap_1: payment_first_month - aval - iva - interes_primera, where
\* payment_first_month = payment_monthly - (interes_30 - interes_primera)
FirstCapital(self, interes_primera) ==
    ClampCapital(
        Quantize(self.monthly_payment_base + self.monthly_aval
                 + self.monthly_iva_aval
                 - Quantize(PeriodInterest(self.approved_amount,
                                           self.base_interest_rate, 30)
                            - interes_primera)
                 - self.monthly_aval - self.monthly_iva_aval - interes_primera),
        self.approved_amount)

\* the first installment once its interest is known
FirstWithInterest(self, fecha_final_1, dias_0, interes_primera) ==
    Installment(self, 1, fecha_final_1, dias_0,
                FirstCapital(self, interes_primera), interes_primera,
                self.approved_amount)

\* the first installment of generate_payment_schedule (15-day rule)
FirstPayment(self, start_date) ==
    FirstWithInterest(self, FirstDueDate(start_date),
        DaysBetween(FirstDueDate(start_date), start_date),
        PeriodInterest(self.approved_amount, self.base_interest_rate,
                       DaysBetween(FirstDueDate(start_date), start_date)))

\* `if abono_cap_k < 0: abono_cap_k = Decimal('0')`
NonNegative(abono) == IF abono < 0 THEN 0 ELSE abono

\* the capital of installment k (2..N) before the last-payment adjustment
CapitalFormula(self, interes_k) ==
    NonNegative(Quantize(self.monthly_payment_base + self.monthly_aval
                         + self.monthly_iva_aval - self.monthly_aval
                         - self.monthly_iva_aval - interes_k))

\* fecha_inicial_k = fecha_final_prev + timedelta(days=1)
NextDay(dt) ==
    IF dt.day < monthrange(dt.year, dt.month) THEN Date(dt.year, dt.month, dt.day + 1)
    ELSE IF dt.month = 12 THEN Date(dt.year + 1, 1, 1)
    ELSE Date(dt.year, dt.month + 1, 1)

RECURSIVE RemainingPayments(_, _, _, _, _)

\* installment k once its capital is known; the balance goes down by it
KthWithCapital(self, k, saldo, acc, fecha_final_k, dias_k, interes_k, abono_cap_k) ==
    RemainingPayments(self, k + 1, Quantize(saldo - abono_cap_k), fecha_final_k,
                      Append(acc, Installment(self, k, fecha_final_k, dias_k,
                                              abono_cap_k, interes_k, saldo)))

\* installment k with the capital of the formula, the last one included
KthWithInterestNoPlug(self, k, saldo, acc, fecha_final_k, dias_k, interes_k) ==
    KthWithCapital(self, k, saldo, acc, fecha_final_k, dias_k, interes_k,
                   CapitalFormula(self, interes_k))

\* installment k once its interest is known; the last one takes the balance
KthWithInterest(self, k, saldo, acc, fecha_final_k, dias_k, interes_k) ==
    KthWithCapital(self, k, saldo, acc, fecha_final_k, dias_k, interes_k,
                   IF k = self.approved_term THEN saldo
                   ELSE CapitalFormula(self, interes_k))

\* installment k once its period is known
KthWithPeriod(self, k, saldo, acc, fecha_final_k, dias_k) ==
    KthWithInterest(self, k, saldo, acc, fecha_final_k, dias_k,
                    PeriodInterest(saldo, self.base_interest_rate, dias_k))

\* the loop stopping one installment early, `range(2, self.approved_term)`
RemainingPaymentsShort(self, k, saldo, prev_final, acc) ==
    IF k >= self.approved_term THEN acc
    ELSE KthWithPeriod(self, k, saldo, acc,
                       EndOfNextMonth(prev_final.year, prev_final.month),
                       DaysBetween(EndOfNextMonth(prev_final.year, prev_final.month),
                                   NextDay(prev_final)))

\* the loop `for k in range(2, self.approved_term + 1)`
RemainingPayments(self, k, saldo, prev_final, acc) ==
    IF k > self.approved_term THEN acc
    ELSE KthWithPeriod(self, k, saldo, acc,
                       EndOfNextMonth(prev_final.year, prev_final.month),
                       DaysBetween(EndOfNextMonth(prev_final.year, prev_final.month),
                                   NextDay(prev_final)))

\* the guards of generate_payment_schedule that return without a schedule
ScheduleInputsMissing(self) ==
    \/ self.approved_amount = 0 \/ self.approved_term = 0
    \/ self.base_interest_rate.n = 0 \/ self.aval_rate.n = 0 \/ self.iva_rate.n = 0
    \/ self.monthly_payment_base = 0 \/ self.monthly_aval = 0
    \/ self.monthly_iva_aval = 0

\* start_date = self.disbursement_date or date.today()
StartDate(self, date_today) ==
    IF self.disbursement_date = NoDate THEN date_today ELSE self.disbursement_date

\* the schedule after its first installment: saldo goes down by its capital
ScheduleFrom(self, first) ==
    RemainingPayments(self, 2,
                      Quantize(self.approved_amount - first.scheduled_capital),
                      first.due_date, <<first>>)

\* Credit.generate_payment_schedule: the rows of the credit after the call
\* (the existing rows are deleted before the inputs are validated)
generate_payment_schedule(self, date_today) ==
    IF ScheduleInputsMissing(self) THEN << >>
    ELSE ScheduleFrom(self, FirstPayment(self, StartDate(self, date_today)))

\* the sum of field f over the first i rows
RECURSIVE SumField(_, _, _)
SumField(rows, f, i) == IF i = 0 THEN 0 ELSE rows[i][f] + SumField(rows, f, i - 1)

\* Credit.update_totals_from_schedule: the totals it stores
update_totals_from_schedule(self, rows) ==
    [self EXCEPT !.total_aval = SumField(rows, "scheduled_aval", Len(rows)),
                 !.total_iva_aval = SumField(rows, "scheduled_iva_aval", Len(rows)),
                 !.total_amount = SumField(rows, "scheduled_total", Len(rows)),
                 !.total_interest = SumField(rows, "scheduled_interest", Len(rows))]

TotalsFields == {"total_aval", "total_iva_aval", "total_amount", "total_interest"}

----------------------------------------------------------------------------
(* Credit.save *)

\* the rates copied from the rate configuration `rc`
RatesCopied(self, rc) ==
    [self EXCEPT
       !.base_interest_rate = rc.base_interest_rate,
       !.iva_rate = rc.iva_rate,
       !.aval_rate =
           IF self.credit_type = "LIBRANZA" THEN rc.aval_rate_libranza
           ELSE IF self.approved_amount # 0 /\ self.approved_amount > 500000000
                THEN rc.aval_rate_high
                ELSE rc.aval_rate_low]

\* a rate block that copies the rates of the configuration on every save
RatesPopulatedAlways(self) ==
    IF self.interest_rate_config # 0
    THEN RatesCopied(self, RateConfigById(self.interest_rate_config))
    ELSE self

\* `if self.interest_rate_config and not self.base_interest_rate`
RatesPopulated(self) ==
    IF self.interest_rate_config # 0 /\ self.base_interest_rate.n = 0
    THEN RatesCopied(self, RateConfigById(self.interest_rate_config))
    ELSE self

\* the block `if self.status == CreditStatus.APPROVED` that assigns the
\* rate configuration of the approval date and copies its rates
AssignRates(self, date_today) ==
    RatesPopulated(
        [self EXCEPT !.interest_rate_config =
            IF @ # 0 THEN @
            ELSE get_rate_for_date(IF self.approval_date # NoDate
                                   THEN self.approval_date ELSE date_today)])

\* the instance after the rate block of Credit.save
SavedRates(self, date_today) ==
    IF self.status = "APPROVED" THEN AssignRates(self, date_today) ELSE self

\* the instance after the monthly-payment block of Credit.save
SavedMonthly(self) ==
    IF /\ self.status = "APPROVED"
       /\ self.approved_amount # 0 /\ self.approved_term # 0
       /\ self.base_interest_rate.n # 0 /\ self.aval_rate.n # 0
       /\ self.iva_rate.n # 0
    THEN calculate_and_save_payments(self) ELSE self

\* `if self.status == CreditStatus.DISBURSED and not self.balance:
\*      self.balance = self.approved_amount`
SavedBalance(self) ==
    IF self.status = "DISBURSED" /\ self.balance = 0
    THEN [self EXCEPT !.balance = self.approved_amount] ELSE self

\* super().save(): the columns of update_fields are written to the row
Stored(saved, row, update_fields, is_being_disbursed) ==
    [self |-> saved,
     row |-> [f \in DOMAIN row |-> IF f \in update_fields THEN saved[f] ELSE row[f]],
     is_being_disbursed |-> is_being_disbursed]

\* Credit.save up to and including super().save(): `self` is the instance,
\* `row` the stored row, `update_fields` the columns written
CreditSave(self, row, update_fields, date_today) ==
    Stored(SavedBalance(SavedMonthly(SavedRates(self, date_today))), row,
           update_fields, row.status # "DISBURSED" /\ self.status = "DISBURSED")

CreditFields ==
    {"status", "credit_type", "company_payment_day", "approved_amount",
     "approved_term", "interest_rate_config", "base_interest_rate", "aval_rate",
     "iva_rate", "monthly_payment", "monthly_payment_base", "monthly_aval",
     "monthly_iva_aval", "total_amount", "total_interest", "total_aval",
     "total_iva_aval", "disbursement_date", "approval_date", "balance"}

----------------------------------------------------------------------------
(* Payment: remaining amounts, overdue days, status *)

remaining_capital(p) == p.scheduled_capital - p.paid_capital
remaining_interest(p) == p.scheduled_interest - p.paid_interest
remaining_aval(p) == p.scheduled_aval - p.paid_aval
remaining_iva(p) == p.scheduled_iva_aval - p.paid_iva_aval
remaining_late_interest(p) == p.applied_late_interest - p.paid_late_interest

remaining_total(p) ==
    remaining_capital(p) + remaining_interest(p) + remaining_aval(p)
    + remaining_iva(p) + remaining_late_interest(p)

EffectiveDeadline(p) ==
    IF p.payment_deadline # NoDate THEN p.payment_deadline ELSE p.due_date

days_overdue(p, date_today) ==
    IF p.status = "PAID" THEN 0
    ELSE IF Ordinal(date_today) > Ordinal(EffectiveDeadline(p))
         THEN DaysBetween(date_today, EffectiveDeadline(p))
         ELSE 0

tolerance == 1000

\* Payment._update_status: the status it stores
update_status(p, date_today) ==
    LET total_due == p.scheduled_total + p.applied_late_interest
    IN  IF p.paid_total >= total_due - tolerance THEN "PAID"
        ELSE IF p.paid_total > 0 THEN "PARTIAL"
        ELSE IF days_overdue(p, date_today) > 0 THEN "OVERDUE"
        ELSE "PENDING"

\* calculate_late_interest on the unpaid scheduled components alone
calculate_late_interest_unpaid_schedule(p, as_of_date, rate) ==
    IF Ordinal(as_of_date) <= Ordinal(EffectiveDeadline(p)) THEN 0
    ELSE IF rate.n = 0 THEN 0
    ELSE 100 * RoundHalfUp((remaining_total(p) - remaining_late_interest(p))
                              * rate.n * DaysBetween(as_of_date, EffectiveDeadline(p)),
                           100 * rate.d * 30)

\* Payment.calculate_late_interest with an explicit rate; `rate` is the
\* monthly percentage divided by 100.  Without a rate the code falls back to
\* self.late_interest_rate (InterestRateConfig has no late_interest_rate).
calculate_late_interest(p, as_of_date, rate) ==
    IF Ordinal(as_of_date) <= Ordinal(EffectiveDeadline(p)) THEN 0
    ELSE IF rate.n = 0 THEN 0
    ELSE LET days_late == DaysBetween(as_of_date, EffectiveDeadline(p))
             overdue_amount == remaining_total(p)
         IN  100 * RoundHalfUp(overdue_amount * rate.n * days_late,
                               100 * rate.d * 30)

\* an apply_late_interest that stores its result whatever the amount
LateInterestAppliedAlways(p, calculated, as_of_date, date_today) ==
    [p EXCEPT !.calculated_late_interest = calculated,
              !.applied_late_interest = calculated,
              !.late_interest_calculated_date = as_of_date,
              !.late_interest_applied_date = date_today]

\* the assignments of apply_late_interest once the interest is calculated
LateInterestApplied(p, calculated, as_of_date, date_today) ==
    IF calculated > 0
    THEN [p EXCEPT !.calculated_late_interest = calculated,
                   !.applied_late_interest = calculated,
                   !.late_interest_calculated_date = as_of_date,
                   !.late_interest_applied_date = date_today]
    ELSE p

\* Payment.apply_late_interest: the row after the call
apply_late_interest(p, as_of_date, rate, date_today) ==
    LateInterestApplied(p, calculate_late_interest(p, as_of_date, rate),
                        as_of_date, date_today)

\* one step of the waterfall: `if due > 0 and remaining > 0: min(remaining, due)`
Applied(due, remaining) ==
    IF due > 0 /\ remaining > 0 THEN Min(remaining, due) ELSE 0

\* an end of the waterfall that also applies late interest at 3 % a month
WaterfallSavedWithLateInterest(p, date_today, breakdown) ==
    [payment |-> apply_late_interest(
                    [p EXCEPT !.status = update_status(p, date_today)],
                    date_today, [n |-> 3, d |-> 100], date_today),
     breakdown |-> breakdown]

\* the end of the waterfall: paid_total, payment_date, _update_status()
WaterfallSaved(p, date_today, breakdown) ==
    [payment |-> [p EXCEPT !.status = update_status(p, date_today)],
     breakdown |-> breakdown]

\* a step 5 that takes the capital received off the scheduled capital
ToCapitalRescheduled(self, amount, transaction_date, date_today, remaining, b) ==
    WaterfallSaved(
        [self EXCEPT
           !.scheduled_capital = @ - Applied(remaining_capital(self), remaining),
           !.paid_total = @ + amount,
           !.payment_date = IF @ = NoDate THEN transaction_date ELSE @],
        date_today,
        [b EXCEPT !.capital = Applied(remaining_capital(self), remaining)])

\* step 5, capital, then `self.paid_total += amount` and the payment date
ToCapital(self, amount, transaction_date, date_today, remaining, b) ==
    WaterfallSaved(
        [self EXCEPT
           !.paid_capital = @ + Applied(remaining_capital(self), remaining),
           !.paid_total = @ + amount,
           !.payment_date = IF @ = NoDate THEN transaction_date ELSE @],
        date_today,
        [b EXCEPT !.capital = Applied(remaining_capital(self), remaining)])

\* step 4, IVA on aval
ToIva(self, amount, transaction_date, date_today, remaining, b) ==
    ToCapital([self EXCEPT !.paid_iva_aval = @ + Applied(remaining_iva(self), remaining)],
              amount, transaction_date, date_today,
              remaining - Applied(remaining_iva(self), remaining),
              [b EXCEPT !.iva = Applied(remaining_iva(self), remaining)])

\* step 3, aval
ToAval(self, amount, transaction_date, date_today, remaining, b) ==
    ToIva([self EXCEPT !.paid_aval = @ + Applied(remaining_aval(self), remaining)],
          amount, transaction_date, date_today,
          remaining - Applied(remaining_aval(self), remaining),
          [b EXCEPT !.aval = Applied(remaining_aval(self), remaining)])

\* step 2, regular interest
ToInterest(self, amount, transaction_date, date_today, remaining, b) ==
    ToAval([self EXCEPT
              !.paid_interest = @ + Applied(remaining_interest(self), remaining)],
           amount, transaction_date, date_today,
           remaining - Applied(remaining_interest(self), remaining),
           [b EXCEPT !.interest = Applied(remaining_interest(self), remaining)])

\* step 1, late interest
ToLateInterest(self, amount, transaction_date, date_today, remaining, b) ==
    ToInterest([self EXCEPT
                  !.paid_late_interest =
                      @ + Applied(remaining_late_interest(self), remaining)],
               amount, transaction_date, date_today,
               remaining - Applied(remaining_late_interest(self), remaining),
               [b EXCEPT
                  !.late_interest = Applied(remaining_late_interest(self), remaining)])

\* Payment.apply_payment up to self.save(): the instance and the breakdown
Waterfall(self, amount, transaction_date, date_today) ==
    ToLateInterest(self, amount, transaction_date, date_today, amount,
                   [late_interest |-> 0, interest |-> 0, aval |-> 0, iva |-> 0,
                    capital |-> 0])

\* PaymentTransaction.objects.create(...)
NewTransaction(k, transaction_date, amount, breakdown) ==
    [payment |-> k,
     transaction_date |-> transaction_date,
     amount |-> amount,
     applied_to_late_interest |-> breakdown.late_interest,
     applied_to_interest |-> breakdown.interest,
     applied_to_aval |-> breakdown.aval,
     applied_to_iva |-> breakdown.iva,
     applied_to_capital |-> breakdown.capital]

\* PaymentTransaction.total_applied
total_applied(t) ==
    t.applied_to_late_interest + t.applied_to_interest + t.applied_to_aval
    + t.applied_to_iva + t.applied_to_capital

----------------------------------------------------------------------------
(* Credit state machine *)

\* the greatest member of a non-empty set of numbers
Max(S) == CHOOSE m \in S : \A o \in S : o <= m

\* Credit.max_days_overdue
max_days_overdue(rows, date_today) ==
    Max({days_overdue(rows[i], date_today) :
            i \in {j \in 1..Len(rows) :
                     rows[j].status \in {"PENDING", "PARTIAL", "OVERDUE"}}}
        \cup {0})

\* rule 4 holding a defaulted credit back: `not in [ACTIVE, PAID_OFF, DEFAULTED]`
TargetStatusDefaultedStays(self, rows, date_today) ==
    IF self.balance <= 0 THEN "PAID_OFF"
    ELSE IF max_days_overdue(rows, date_today) >= 30 THEN "DEFAULTED"
    ELSE IF max_days_overdue(rows, date_today) > 0 THEN "PAST_DUE"
    ELSE IF self.status \notin {"ACTIVE", "PAID_OFF", "DEFAULTED"} THEN "ACTIVE"
    ELSE self.status

\* the rules without the early return of rule 1: a credit without balance
\* goes on to the overdue rules
TargetStatusNoReturn(self, rows, date_today) ==
    IF max_days_overdue(rows, date_today) >= 30 THEN "DEFAULTED"
    ELSE IF max_days_overdue(rows, date_today) > 0 THEN "PAST_DUE"
    ELSE IF self.balance <= 0 THEN "PAID_OFF"
    ELSE IF self.status \notin {"ACTIVE", "PAID_OFF"} THEN "ACTIVE"
    ELSE self.status

\* the status update_status_from_payments looks up, rule by rule; its own
\* status where no rule asks for a change
TargetStatus(self, rows, date_today) ==
    IF self.balance <= 0 THEN "PAID_OFF"
    ELSE IF max_days_overdue(rows, date_today) >= 30 THEN "DEFAULTED"
    ELSE IF max_days_overdue(rows, date_today) > 0 THEN "PAST_DUE"
    ELSE IF self.status \notin {"ACTIVE", "PAID_OFF"} THEN "ACTIVE"
    ELSE self.status

\* the credit after self.save(update_fields=['status']); `wrote` tells
\* whether the call saved
StatusStored(saved) ==
    [self |-> saved.self, row |-> saved.row, raised |-> "none", wrote |-> TRUE]

\* the same without the test `if self.status != CreditStatus.X`
SetStatusAlways(self, row, new, date_today) ==
    IF new \notin CreditStatus
    THEN [self |-> self, row |-> row, raised |-> "AttributeError", wrote |-> FALSE]
    ELSE StatusStored(CreditSave([self EXCEPT !.status = new], row, {"status"},
                                 date_today))

\* `if self.status != CreditStatus.X: self.status = CreditStatus.X; save`.
\* Looking up a name that is not a member of CreditStatus raises
\* AttributeError before anything is written.
SetStatus(self, row, new, date_today) ==
    IF new \notin CreditStatus
    THEN [self |-> self, row |-> row, raised |-> "AttributeError", wrote |-> FALSE]
    ELSE IF self.status # new
    THEN StatusStored(CreditSave([self EXCEPT !.status = new], row, {"status"},
                                 date_today))
    ELSE [self |-> self, row |-> row, raised |-> "none", wrote |-> FALSE]

\* Credit.update_status_from_payments: `self` is the instance, `row` the
\* stored credit, `rows` its stored installments
update_status_from_payments(self, row, rows, date_today) ==
    IF rows = << >>
    THEN [self |-> self, row |-> row, raised |-> "none", wrote |-> FALSE]
    ELSE SetStatus(self, row, TargetStatus(self, rows, date_today), date_today)

----------------------------------------------------------------------------
(* Inputs *)

\* approved amounts, in cents: whole, and with cents
Amounts == {100000, 100040}

\* the approved amount of the credit followed through its payments
LedgerAmounts == {100000}

\* disbursement dates entered with the credit (NoDate: the day of disbursement)
DisbursementDates ==
    {NoDate, Date(2024, 1, 20), Date(2024, 2, 15), Date(2024, 12, 16)}

\* Company.payment_day of the employer (0: none)
PaymentDays == {0, 5, 31}

\* the dates the clock takes
Days == {Date(2024, 1, 10), Date(2024, 2, 10), Date(2024, 3, 10)}

\* cash amounts, in cents, besides the exact remaining total of an installment
PayAmounts == {-5000, 3000, 200000}

\* explicit monthly late-interest rates (3.00 %), and none given
LateRates == {ZeroRate, [n |-> 3, d |-> 100]}

Requests == {1, 2}

IdleReq == [pc |-> "idle"]

NewCredit(amount, term, type, payment_day) ==
    [status |-> "PENDING",
     credit_type |-> type,
     company_payment_day |-> payment_day,
     approved_amount |-> amount,
     approved_term |-> term,
     interest_rate_config |-> 0,
     base_interest_rate |-> ZeroRate,
     aval_rate |-> ZeroRate,
     iva_rate |-> ZeroRate,
     monthly_payment |-> 0,
     monthly_payment_base |-> 0,
     monthly_aval |-> 0,
     monthly_iva_aval |-> 0,
     total_amount |-> 0,
     total_interest |-> 0,
     total_aval |-> 0,
     total_iva_aval |-> 0,
     disbursement_date |-> NoDate,
     approval_date |-> NoDate,
     balance |-> 0]

----------------------------------------------------------------------------
(* The ledger: one credit, its installments and their transactions *)

Init ==
    /\ \E amount \in LedgerAmounts, term \in 1..MaxLedgerTerm :
          credit = NewCredit(amount, term, "NATURAL", 0)
    /\ payments = << >>
    /\ transactions = << >>
    /\ today = Date(2024, 1, 10)
    /\ raised = "none"
    /\ reqs = [r \in Requests |-> IdleReq]
    /\ credit_numbers = << >>

\* the update of CreditAdmin.approve_credits on a pending credit
Approved(c, date_today) ==
    [c EXCEPT !.status = "APPROVED", !.approval_date = date_today]

\* the credit row after update_totals_from_schedule(), which ends in
\* self.save(update_fields=[the totals])
TotalsSaved(self, row, rows, date_today) ==
    IF rows # << >>
    THEN CreditSave(update_totals_from_schedule(self, rows), row, TotalsFields,
                    date_today).row
    ELSE row

\* `if is_being_disbursed and not self.payments.exists():
\*      self.generate_payment_schedule()`, with the rows it created
ScheduleOnDisbursement(saved, new_rows, date_today) ==
    [credit |-> TotalsSaved(saved.self, saved.row, new_rows, date_today),
     payments |-> new_rows]

\* the end of Credit.save() without the test `not self.payments.exists()`
AfterSaveAlways(saved, rows, date_today) ==
    IF saved.is_being_disbursed
    THEN ScheduleOnDisbursement(saved,
                                generate_payment_schedule(saved.self, date_today),
                                date_today)
    ELSE [credit |-> saved.row, payments |-> rows]

\* the end of Credit.save() after super().save()
AfterSave(saved, rows, date_today) ==
    IF saved.is_being_disbursed /\ rows = << >>
    THEN ScheduleOnDisbursement(saved,
                                generate_payment_schedule(saved.self, date_today),
                                date_today)
    ELSE [credit |-> saved.row, payments |-> rows]

\* the loop body of CreditAdmin.disburse_credits: the disbursement date, the
\* status, and Credit.save() with the schedule of the first disbursement
Disbursed(c, rows, date_today) ==
    AfterSave(CreditSave([c EXCEPT
                            !.disbursement_date = IF @ = NoDate THEN date_today ELSE @,
                            !.status = "DISBURSED"],
                         c, CreditFields, date_today),
              rows, date_today)

\* lines 412-415 of Payment.apply_payment: the balance update through
\* Credit.save(update_fields=['balance'])
BalanceSaved(self, row, capital, date_today) ==
    IF capital > 0
    THEN CreditSave([self EXCEPT !.balance = @ - capital], row, {"balance"}, date_today)
    ELSE [self |-> self, row |-> row, is_being_disbursed |-> FALSE]

\* the outcome of apply_payment once the credit status was re-evaluated
PaymentOutcome(new_rows, transaction, status) ==
    [credit |-> status.row,
     payments |-> new_rows,
     transaction |-> transaction,
     raised |-> status.raised]

\* line 417: self.credit.update_status_from_payments() on the saved credit
PaymentThenStatus(new_rows, transaction, c1, date_today) ==
    PaymentOutcome(new_rows, transaction,
                   update_status_from_payments(c1.self, c1.row, new_rows, date_today))

\* lines 397-415: the transaction row and the balance update
PaymentRecorded(c, rows, k, amount, date_today, w) ==
    PaymentThenStatus([rows EXCEPT ![k] = w.payment],
                      NewTransaction(k, date_today, amount, w.breakdown),
                      BalanceSaved(c, c, w.breakdown.capital, date_today),
                      date_today)

\* Payment.apply_payment(amount, transaction_date) on installment k, run alone
ApplyPaymentResult(c, rows, k, amount, date_today) ==
    PaymentRecorded(c, rows, k, amount, date_today,
                    Waterfall(rows[k], amount, date_today, date_today))

\* the cash amounts offered for installment k: the fixed ones, its exact
\* remaining total, and that total less the tolerance of _update_status
AmountsFor(k) ==
    PayAmounts
    \cup {remaining_total(payments[j]) : j \in {k} \cap 1..Len(payments)}
    \cup {remaining_total(payments[j]) - tolerance : j \in {k} \cap 1..Len(payments)}

\* CreditAdmin.approve_credits: queryset.update on the pending credit
approve_credits ==
    /\ credit.status = "PENDING"
    /\ credit' = Approved(credit, today)
    /\ raised' = "none"
    /\ UNCHANGED <<payments, transactions, today, reqs, credit_numbers>>

\* CreditAdmin.reject_credits
reject_credits ==
    /\ credit.status = "PENDING"
    /\ credit' = [credit EXCEPT !.status = "REJECTED"]
    /\ raised' = "none"
    /\ UNCHANGED <<payments, transactions, today, reqs, credit_numbers>>

\* the credit saved as it is (admin change form without edits): Credit.save()
save_credit ==
    /\ \E saved \in {CreditSave(credit, credit, CreditFields, today)} :
          credit' = saved.row
    /\ raised' = "none"
    /\ UNCHANGED <<payments, transactions, today, reqs, credit_numbers>>

\* disburse_credits without queryset.filter(status=CreditStatus.APPROVED)
disburse_credits_unfiltered ==
    /\ \E r \in {Disbursed(credit, payments, today)} :
          /\ credit' = r.credit
          /\ payments' = r.payments
    /\ raised' = "none"
    /\ UNCHANGED <<transactions, today, reqs, credit_numbers>>

\* CreditAdmin.disburse_credits
disburse_credits ==
    /\ credit.status = "APPROVED"
    /\ \E r \in {Disbursed(credit, payments, today)} :
          /\ credit' = r.credit
          /\ payments' = r.payments
    /\ raised' = "none"
    /\ UNCHANGED <<transactions, today, reqs, credit_numbers>>

\* the credit saved from the admin change form with its status set back to
\* DISBURSED: Credit.save() on a credit that was disbursed before
Redisbursed(c, rows, date_today) ==
    AfterSave(CreditSave([c EXCEPT !.status = "DISBURSED"], c, CreditFields,
                         date_today),
              rows, date_today)

\* CreditAdmin change form (fieldset Status): a status change back to DISBURSED
save_credit_disbursed ==
    /\ credit.status \in {"ACTIVE", "DEFAULTED", "PAID_OFF"}
    /\ \E r \in {Redisbursed(credit, payments, today)} :
          /\ credit' = r.credit
          /\ payments' = r.payments
    /\ raised' = "none"
    /\ UNCHANGED <<transactions, today, reqs, credit_numbers>>

\* a regeneration whose delete cascades to the transactions of the rows
regenerate_schedules_cascading ==
    /\ credit.status \in {"DISBURSED", "ACTIVE"}
    /\ \E c1 \in {calculate_and_save_payments(credit)} :
          \E rows \in {generate_payment_schedule(c1, today)} :
             /\ payments' = rows
             /\ credit' = TotalsSaved(c1, c1, rows, today)
    /\ transactions' = << >>
    /\ raised' = "none"
    /\ UNCHANGED <<today, reqs, credit_numbers>>

\* CreditAdmin.regenerate_schedules: Credit.regenerate_payment_schedule
regenerate_schedules ==
    /\ credit.status \in {"DISBURSED", "ACTIVE"}
    /\ IF \E i \in 1..Len(transactions) : transactions[i].payment \in 1..Len(payments)
       THEN \* on_delete=PROTECT: the delete raises and removes nothing
            /\ raised' = "ProtectedError"
            /\ UNCHANGED <<credit, payments>>
       ELSE IF \/ credit.approved_amount = 0 \/ credit.approved_term = 0
               \/ credit.base_interest_rate.n = 0 \/ credit.aval_rate.n = 0
               \/ credit.iva_rate.n = 0
       THEN \* calculate_and_save_payments on a missing term or rate
            /\ raised' = "TypeError"
            /\ payments' = << >>
            /\ UNCHANGED credit
       ELSE \E c1 \in {calculate_and_save_payments(credit)} :
               \E rows \in {generate_payment_schedule(c1, today)} :
                  /\ payments' = rows
                  /\ credit' = TotalsSaved(c1, c1, rows, today)
                  /\ raised' = "none"
    /\ UNCHANGED <<transactions, today, reqs, credit_numbers>>

\* CreditAdmin.update_statuses (refreshCreditStatus)
update_statuses ==
    /\ payments # << >>
    /\ \E r \in {update_status_from_payments(credit, credit, payments, today)} :
          /\ credit' = r.row
          /\ raised' = r.raised
    /\ UNCHANGED <<payments, transactions, today, reqs, credit_numbers>>

\* Payment.apply_payment on some installment, with some amount
apply_payment ==
    /\ Len(transactions) < MaxTx
    /\ \E k \in 1..Len(payments) :
          \E amount \in AmountsFor(k) :
             \E r \in {ApplyPaymentResult(credit, payments, k, amount, today)} :
                /\ payments' = r.payments
                /\ transactions' = Append(transactions, r.transaction)
                /\ credit' = r.credit
                /\ raised' = r.raised
    /\ UNCHANGED <<today, reqs, credit_numbers>>

\* Payment.apply_late_interest(as_of_date=None, rate) on some installment
apply_late_interest_action ==
    /\ \E k \in 1..Len(payments), rate \in LateRates :
          payments' = [payments EXCEPT ![k] = apply_late_interest(@, today, rate, today)]
    /\ raised' = "none"
    /\ UNCHANGED <<credit, transactions, today, reqs, credit_numbers>>

\* date.today() moves on
advance_time ==
    /\ \E d \in Days : Ordinal(d) > Ordinal(today) /\ today' = d
    /\ raised' = "none"
    /\ UNCHANGED <<credit, payments, transactions, reqs, credit_numbers>>

Next ==
    \/ approve_credits
    \/ reject_credits
    \/ save_credit
    \/ disburse_credits
    \/ save_credit_disbursed
    \/ regenerate_schedules
    \/ update_statuses
    \/ apply_payment
    \/ apply_late_interest_action
    \/ advance_time

Spec == Init /\ [][Next]_vars

----------------------------------------------------------------------------
(* Schedule generation alone: every input of the schedule builder, no cash *)

InitSchedule ==
    /\ \E amount \in Amounts, term \in 1..MaxTerm, start \in DisbursementDates :
          \E type \in {"NATURAL", "LIBRANZA"}, payment_day \in PaymentDays :
             credit = [NewCredit(amount, term, type, payment_day)
                         EXCEPT !.disbursement_date = start]
    /\ payments = << >>
    /\ transactions = << >>
    /\ today = Date(2024, 1, 10)
    /\ raised = "none"
    /\ reqs = [r \in Requests |-> IdleReq]
    /\ credit_numbers = << >>

NextSchedule ==
    \/ approve_credits
    \/ save_credit
    \/ disburse_credits
    \/ regenerate_schedules

SpecSchedule == InitSchedule /\ [][NextSchedule]_vars

----------------------------------------------------------------------------
(* Schedule generation for credits of long terms *)

\* the terms of the long credits
LongTerms == {MaxLongTerm - 1, MaxLongTerm}

InitLongTerm ==
    /\ \E amount \in Amounts, term \in LongTerms, start \in DisbursementDates :
          \E type \in {"NATURAL", "LIBRANZA"}, payment_day \in PaymentDays :
             credit = [NewCredit(amount, term, type, payment_day)
                         EXCEPT !.disbursement_date = start]
    /\ payments = << >>
    /\ transactions = << >>
    /\ today = Date(2024, 1, 10)
    /\ raised = "none"
    /\ reqs = [r \in Requests |-> IdleReq]
    /\ credit_numbers = << >>

SpecLongTerm == InitLongTerm /\ [][NextSchedule]_vars

----------------------------------------------------------------------------
(* Two requests applying payments to one disbursed credit.  Each statement    *)
(* of apply_payment that reads or writes the store is a step of its own: the  *)
(* code takes no lock and opens no transaction.                               *)

\* cash amounts of the concurrent requests, in cents
ConcAmounts == {3000, 200000}

\* the credit of term `term`, approved, saved and disbursed on `date_today`
ConcStart(term, date_today) ==
    Disbursed(CreditSave(Approved(NewCredit(100000, term, "NATURAL", 0), date_today),
                         Approved(NewCredit(100000, term, "NATURAL", 0), date_today),
                         CreditFields, date_today).row,
              << >>, date_today)

InitConc ==
    /\ today = Date(2024, 1, 10)
    /\ \E term \in 1..MaxLedgerTerm :
          \E start \in {ConcStart(term, today)} :
             /\ credit = start.credit
             /\ payments = start.payments
    /\ transactions = << >>
    /\ raised = "none"
    /\ reqs = [r \in Requests |-> IdleReq]
    /\ credit_numbers = << >>

\* the caller fetches the installment and calls apply_payment(amount)
req_load(r) ==
    /\ reqs[r].pc = "idle"
    /\ \E k \in 1..Len(payments), amount \in ConcAmounts :
          reqs' = [reqs EXCEPT ![r] = [pc |-> "loaded", k |-> k, amount |-> amount,
                                       self |-> payments[k]]]
    /\ UNCHANGED <<credit, payments, transactions, today, raised, credit_numbers>>

\* lines 335-395: the waterfall on the instance, then self.save()
req_save(r) ==
    /\ reqs[r].pc = "loaded"
    /\ \E w \in {Waterfall(reqs[r].self, reqs[r].amount, today, today)} :
          /\ payments' = [payments EXCEPT ![reqs[r].k] = w.payment]
          /\ reqs' = [reqs EXCEPT ![r] = [pc |-> "saved", k |-> reqs[r].k,
                                          amount |-> reqs[r].amount,
                                          self |-> w.payment,
                                          breakdown |-> w.breakdown]]
    /\ UNCHANGED <<credit, transactions, today, raised, credit_numbers>>

\* lines 397-410: PaymentTransaction.objects.create
req_create(r) ==
    /\ reqs[r].pc = "saved"
    /\ transactions' = Append(transactions,
                              NewTransaction(reqs[r].k, today, reqs[r].amount,
                                             reqs[r].breakdown))
    /\ reqs' = [reqs EXCEPT ![r].pc = "recorded"]
    /\ UNCHANGED <<credit, payments, today, raised, credit_numbers>>

\* the first use of self.credit: the related row is read from the store
req_fetch_credit(r) ==
    /\ reqs[r].pc = "recorded"
    /\ reqs' = [reqs EXCEPT ![r] = [pc |-> "fetched", k |-> reqs[r].k,
                                    amount |-> reqs[r].amount,
                                    breakdown |-> reqs[r].breakdown,
                                    credit |-> credit]]
    /\ UNCHANGED <<credit, payments, transactions, today, raised, credit_numbers>>

\* lines 412-415: the balance update on the fetched instance
req_balance(r) ==
    /\ reqs[r].pc = "fetched"
    /\ \E c1 \in {BalanceSaved(reqs[r].credit, credit, reqs[r].breakdown.capital,
                               today)} :
          /\ credit' = c1.row
          /\ reqs' = [reqs EXCEPT ![r].pc = "balanced", ![r].credit = c1.self]
    /\ UNCHANGED <<payments, transactions, today, raised, credit_numbers>>

\* line 417: self.credit.update_status_from_payments()
req_status(r) ==
    /\ reqs[r].pc = "balanced"
    /\ \E res \in {update_status_from_payments(reqs[r].credit, credit, payments,
                                               today)} :
          /\ credit' = res.row
          /\ raised' = res.raised
    /\ reqs' = [reqs EXCEPT ![r] = [pc |-> "done", k |-> reqs[r].k,
                                    amount |-> reqs[r].amount]]
    /\ UNCHANGED <<payments, transactions, today, credit_numbers>>

NextConc ==
    \E r \in Requests :
       \/ req_load(r)
       \/ req_save(r)
       \/ req_create(r)
       \/ req_fetch_credit(r)
       \/ req_balance(r)
       \/ req_status(r)

SpecConc == InitConc /\ [][NextConc]_vars

----------------------------------------------------------------------------
(* The late-interest preview on a disbursed credit: the caller holds the      *)
(* result of Payment.calculate_late_interest                                  *)

\* the as_of_date arguments of the preview (NoDate: none given)
AsOfDates == {NoDate, Date(2024, 1, 31), Date(2024, 3, 10)}

\* `as_of_date = as_of_date or date.today()`
AsOf(as_of_date, date_today) ==
    IF as_of_date = NoDate THEN date_today ELSE as_of_date

\* a calculate_late_interest that keeps its result on the instance
LateInterestPreviewStored(p, as_of_date, rate, date_today) ==
    [payment |-> [p EXCEPT !.calculated_late_interest =
                     calculate_late_interest(p, AsOf(as_of_date, date_today), rate)],
     result |-> calculate_late_interest(p, AsOf(as_of_date, date_today), rate)]

\* Payment.calculate_late_interest seen from its caller: the instance after
\* the call and the value returned
LateInterestPreview(p, as_of_date, rate, date_today) ==
    [payment |-> p,
     result |-> calculate_late_interest(p, AsOf(as_of_date, date_today), rate)]

\* a call of calculate_late_interest on an installment, as made by
\* PaymentAdmin.calculate_late_interest_preview and by the list column
\* calculated_late_interest_display; the caller keeps the returned amount
calculate_late_interest_preview ==
    /\ reqs[1].pc = "idle"
    /\ \E k \in 1..Len(payments), as_of_date \in AsOfDates, rate \in LateRates :
          \E r \in {LateInterestPreview(payments[k], as_of_date, rate, today)} :
             /\ payments' = [payments EXCEPT ![k] = r.payment]
             /\ reqs' = [reqs EXCEPT ![1] = [pc |-> "previewed", k |-> k,
                                            as_of_date |-> AsOf(as_of_date, today),
                                            rate |-> rate,
                                            result |-> r.result]]
    /\ raised' = "none"
    /\ UNCHANGED <<credit, transactions, today, credit_numbers>>

\* the caller has shown the amount (message_user, the list cell) and returns
preview_shown ==
    /\ reqs[1].pc = "previewed"
    /\ reqs' = [reqs EXCEPT ![1] = IdleReq]
    /\ UNCHANGED <<credit, payments, transactions, today, raised, credit_numbers>>

\* a disbursed credit of two installments, nothing paid yet
InitPreview ==
    /\ today = Date(2024, 1, 10)
    /\ \E start \in {ConcStart(2, today)} :
          /\ credit = start.credit
          /\ payments = start.payments
    /\ transactions = << >>
    /\ raised = "none"
    /\ reqs = [r \in Requests |-> IdleReq]
    /\ credit_numbers = << >>

\* the preview is one synchronous call: the other handlers run between calls
NextPreview ==
    \/ reqs[1].pc = "idle" /\ apply_payment
    \/ reqs[1].pc = "idle" /\ apply_late_interest_action
    \/ reqs[1].pc = "idle" /\ advance_time
    \/ reqs[1].pc = "idle" /\ update_statuses
    \/ reqs[1].pc = "idle" /\ regenerate_schedules
    \/ calculate_late_interest_preview
    \/ preview_shown

SpecPreview == InitPreview /\ [][NextPreview]_vars

----------------------------------------------------------------------------
(* regenerate_payment_schedule next to apply_payment: request 1 pays an
   installment, request 2 regenerates the schedule of the same credit; each
   step is one statement sent to the database, no lock and no transaction
   around them *)

\* the number of deletes request 2 has run on the credit's installments
RowsDeleted == IF reqs[2].pc = "idle" THEN 0 ELSE reqs[2].deleted

\* the row of request 1's instance is in the table: nothing was deleted since
\* the instance was loaded or inserted
RowStored(r) == reqs[r].seen = RowsDeleted

\* UPDATE ... WHERE id = pk on the stored row of installment number k
RowUpdated(rows, k, row) ==
    [i \in DOMAIN rows |-> IF rows[i].payment_number = k THEN row ELSE rows[i]]

\* the caller fetches the installment and calls apply_payment(amount)
pay_load ==
    /\ reqs[1].pc = "idle"
    /\ \E k \in 1..Len(payments), amount \in ConcAmounts :
          reqs' = [reqs EXCEPT ![1] = [pc |-> "loaded",
                                       k |-> payments[k].payment_number,
                                       amount |-> amount, self |-> payments[k],
                                       seen |-> RowsDeleted]]
    /\ UNCHANGED <<credit, payments, transactions, today, raised, credit_numbers>>

\* the request once self.save() has written row `row` of the waterfall `w`
PaySaved(r, w) ==
    [pc |-> "saved", k |-> reqs[r].k, amount |-> reqs[r].amount,
     self |-> w.payment, breakdown |-> w.breakdown, seen |-> RowsDeleted]

\* lines 335-395: the waterfall, then self.save(): an UPDATE by primary key
\* and, when that key is no longer in the table, an INSERT of the instance,
\* which unique_together (credit, payment_number) may refuse
pay_save ==
    /\ reqs[1].pc = "loaded"
    /\ \E w \in {Waterfall(reqs[1].self, reqs[1].amount, today, today)} :
          IF RowStored(1)
          THEN /\ payments' = RowUpdated(payments, reqs[1].k, w.payment)
               /\ reqs' = [reqs EXCEPT ![1] = PaySaved(1, w)]
               /\ raised' = raised
          ELSE IF \E i \in 1..Len(payments) : payments[i].payment_number = reqs[1].k
          THEN /\ reqs' = [reqs EXCEPT ![1] = [pc |-> "failed"]]
               /\ raised' = "IntegrityError"
               /\ payments' = payments
          ELSE /\ payments' = <<w.payment>>
               /\ reqs' = [reqs EXCEPT ![1] = PaySaved(1, w)]
               /\ raised' = raised
    /\ UNCHANGED <<credit, transactions, today, credit_numbers>>

\* lines 397-410: PaymentTransaction.objects.create, refused by the foreign
\* key when the installment row is gone
pay_create ==
    /\ reqs[1].pc = "saved"
    /\ IF RowStored(1)
       THEN /\ transactions' = Append(transactions,
                                      NewTransaction(reqs[1].k, today, reqs[1].amount,
                                                     reqs[1].breakdown))
            /\ reqs' = [reqs EXCEPT ![1] = [pc |-> "recorded", k |-> reqs[1].k,
                                           amount |-> reqs[1].amount,
                                           breakdown |-> reqs[1].breakdown]]
            /\ raised' = raised
       ELSE /\ reqs' = [reqs EXCEPT ![1] = [pc |-> "failed"]]
            /\ raised' = "IntegrityError"
            /\ transactions' = transactions
    /\ UNCHANGED <<credit, payments, today, credit_numbers>>

\* lines 714-718 of regenerate_payment_schedule: self.payments.all().delete(),
\* refused by on_delete=PROTECT when a transaction refers to a row
regen_delete ==
    /\ reqs[2].pc = "idle"
    /\ credit.status \in {"DISBURSED", "ACTIVE"}
    /\ IF transactions # << >>
       THEN /\ reqs' = [reqs EXCEPT ![2] = [pc |-> "failed", deleted |-> 0]]
            /\ raised' = "ProtectedError"
            /\ payments' = payments
       ELSE /\ reqs' = [reqs EXCEPT ![2] = [pc |-> "deleted", deleted |-> 1,
                                           credit |-> credit]]
            /\ raised' = raised
            /\ payments' = << >>
    /\ UNCHANGED <<credit, transactions, today, credit_numbers>>

\* lines 720-733: calculate_and_save_payments() and the save of the monthly
\* amounts and totals from the instance
regen_amounts ==
    /\ reqs[2].pc = "deleted"
    /\ \E c1 \in {calculate_and_save_payments(reqs[2].credit)} :
          /\ credit' = Stored(c1, credit,
                              {"monthly_payment_base", "monthly_aval",
                               "monthly_iva_aval", "monthly_payment"}
                              \cup TotalsFields, FALSE).row
          /\ reqs' = [reqs EXCEPT ![2] = [pc |-> "amounts", deleted |-> 1,
                                         credit |-> c1]]
    /\ UNCHANGED <<payments, transactions, today, raised, credit_numbers>>

\* line 467 of generate_payment_schedule: self.payments.all().delete() again
gen_delete ==
    /\ reqs[2].pc = "amounts"
    /\ IF transactions # << >>
       THEN /\ reqs' = [reqs EXCEPT ![2] = [pc |-> "failed", deleted |-> 1]]
            /\ raised' = "ProtectedError"
            /\ payments' = payments
       ELSE /\ reqs' = [reqs EXCEPT ![2] = [pc |-> "emptied", deleted |-> 2,
                                           credit |-> reqs[2].credit]]
            /\ raised' = raised
            /\ payments' = << >>
    /\ UNCHANGED <<credit, transactions, today, credit_numbers>>

\* lines 637-638: Payment.objects.bulk_create(payments_to_create), refused by
\* unique_together when a row of the credit is in the table, then
\* update_totals_from_schedule()
gen_create ==
    /\ reqs[2].pc = "emptied"
    /\ IF payments # << >>
       THEN /\ reqs' = [reqs EXCEPT ![2] = [pc |-> "failed", deleted |-> 2]]
            /\ raised' = "IntegrityError"
            /\ UNCHANGED <<credit, payments>>
       ELSE \E rows \in {generate_payment_schedule(reqs[2].credit, today)} :
               /\ payments' = rows
               /\ credit' = TotalsSaved(reqs[2].credit, credit, rows, today)
               /\ reqs' = [reqs EXCEPT ![2] = [pc |-> "done", deleted |-> 2]]
               /\ raised' = raised
    /\ UNCHANGED <<transactions, today, credit_numbers>>

NextRegen ==
    \/ pay_load
    \/ pay_save
    \/ pay_create
    \/ req_fetch_credit(1)
    \/ req_balance(1)
    \/ req_status(1)
    \/ regen_delete
    \/ regen_amounts
    \/ gen_delete
    \/ gen_create

SpecRegen == InitConc /\ [][NextRegen]_vars

----------------------------------------------------------------------------
(* The rates of a credit through its life: saves from the admin change form
   with the approved amount or the rate configuration changed, disbursement,
   regeneration and payments *)

\* CreditAdmin change form (fieldsets Approved Terms and Interest Rate
\* Configuration): Credit.save() with the amount and the configuration entered
save_credit_edited ==
    /\ \E amount \in Amounts, config \in {c.id : c \in RateConfigs} :
          \E saved \in {CreditSave([credit EXCEPT !.approved_amount = amount,
                                                  !.interest_rate_config = config],
                                   credit, CreditFields, today)} :
             credit' = saved.row
    /\ raised' = "none"
    /\ UNCHANGED <<payments, transactions, today, reqs, credit_numbers>>

NextRates ==
    \/ approve_credits
    \/ save_credit
    \/ save_credit_edited
    \/ disburse_credits
    \/ regenerate_schedules
    \/ apply_payment

SpecRates == Init /\ [][NextRates]_vars

----------------------------------------------------------------------------
(* Credit.pmt at rate 0 *)

\* principals in cents: 0.00, 0.50, 1.00, ... 20.00
PmtPrincipals == {50 * p : p \in 0..40}

\* Credit.pmt(principal, Decimal('0'), n)
pmt_zero_rate ==
    /\ \E principal \in PmtPrincipals, n \in 1..MaxPmtTerm :
          reqs' = [reqs EXCEPT ![1] = [pc |-> "pmt", principal |-> principal,
                                       n |-> n,
                                       result |-> pmt(principal, ZeroRate, n)]]
    /\ raised' = "none"
    /\ UNCHANGED <<credit, payments, transactions, today, credit_numbers>>

NextPmt == pmt_zero_rate

SpecPmt == Init /\ [][NextPmt]_vars

----------------------------------------------------------------------------
(* InterestRateConfig.get_rate_for_date on tables of rate configurations *)

\* a row of interest_rate_configs, with the rates of the January row
RateConfigRow(id, month, effective_date, is_active) ==
    [id |-> id, year |-> 2024, month |-> month,
     base_interest_rate |-> [n |-> 1, d |-> 20],
     aval_rate_libranza |-> [n |-> 2, d |-> 25],
     aval_rate_high |-> [n |-> 3, d |-> 50],
     aval_rate_low |-> [n |-> 2, d |-> 25],
     iva_rate |-> [n |-> 19, d |-> 100],
     is_active |-> is_active,
     effective_date |-> effective_date]

\* rows a table may hold: one per month (unique_rate_per_month), active or
\* not, the March row effective from the 15th
RateConfigPool ==
    {RateConfigRow(1, 1, Date(2024, 1, 1), TRUE),
     RateConfigRow(2, 2, Date(2024, 2, 1), FALSE),
     RateConfigRow(3, 3, Date(2024, 3, 15), TRUE),
     RateConfigRow(4, 5, Date(2024, 5, 1), TRUE),
     RateConfigRow(5, 6, Date(2024, 6, 1), FALSE)}

\* the reference dates asked for
ReferenceDates ==
    {Date(2024, 1, 10), Date(2024, 2, 10), Date(2024, 3, 10), Date(2024, 4, 20),
     Date(2024, 5, 1), Date(2024, 6, 5), Date(2024, 7, 1)}

\* InterestRateConfig.get_rate_for_date(reference_date) on some table; None
\* is returned, nothing is raised
resolve_rate ==
    /\ \E configs \in SUBSET RateConfigPool, reference_date \in ReferenceDates :
          reqs' = [reqs EXCEPT ![1] = [pc |-> "resolved", configs |-> configs,
                                       reference_date |-> reference_date,
                                       result |-> rate_for_date(configs,
                                                                reference_date)]]
    /\ raised' = "none"
    /\ UNCHANGED <<credit, payments, transactions, today, credit_numbers>>

NextResolve == resolve_rate

SpecResolve == Init /\ [][NextResolve]_vars

----------------------------------------------------------------------------
(* Credit.generate_credit_number: two requests creating credits.  Each       *)
(* request reads the last number of the year, then inserts its credit; the   *)
(* column credit_number is unique.                                           *)

\* the decimal digits of n, most significant first
RECURSIVE Digits(_)
Digits(n) == IF n < 10 THEN <<n>> ELSE Append(Digits(n \div 10), n % 10)

\* the format `:05d`: zeros on the left up to the width
RECURSIVE ZeroPadded(_, _)
ZeroPadded(digits, width) ==
    IF Len(digits) >= width THEN digits ELSE ZeroPadded(<<0>> \o digits, width)

\* f'CR-{year}-{new_number:05d}'
CreditNumber(year, new_number) ==
    [year |-> year, digits |-> ZeroPadded(Digits(new_number), 5)]

\* int(digits): the value of the first i digits
RECURSIVE DigitsValue(_, _)
DigitsValue(digits, i) ==
    IF i = 0 THEN 0 ELSE 10 * DigitsValue(digits, i - 1) + digits[i]

\* int(last_credit.credit_number.split('-')[-1])
last_number(credit_number) ==
    DigitsValue(credit_number.digits, Len(credit_number.digits))

\* a < b as strings, compared from character i on
RECURSIVE StringLess(_, _, _)
StringLess(a, b, i) ==
    IF i > Len(a) THEN i <= Len(b)
    ELSE IF i > Len(b) THEN FALSE
    ELSE IF a[i] # b[i] THEN a[i] < b[i]
    ELSE StringLess(a, b, i + 1)

\* Credit.objects.filter(credit_number__startswith=f'CR-{year}')
NumbersOfYear(rows, year) ==
    {rows[i] : i \in {j \in 1..Len(rows) : rows[j].year = year}}

\* .order_by('-credit_number').first(): the greatest as a string
LastCredits(rows, year) ==
    {c \in NumbersOfYear(rows, year) :
        \A o \in NumbersOfYear(rows, year) : ~StringLess(c.digits, o.digits, 1)}

\* Credit.generate_credit_number
generate_credit_number(rows, year) ==
    IF NumbersOfYear(rows, year) = {} THEN CreditNumber(year, 1)
    ELSE CreditNumber(year,
                      last_number(CHOOSE c \in LastCredits(rows, year) : TRUE) + 1)

\* Credit.save() of a new credit up to the number: `if not self.credit_number:
\* self.credit_number = self.generate_credit_number()`
number_generate(r) ==
    /\ reqs[r].pc = "idle"
    /\ Len(credit_numbers) < MaxCredits
    /\ reqs' = [reqs EXCEPT ![r] =
                  [pc |-> "numbered",
                   credit_number |-> generate_credit_number(credit_numbers,
                                                            today.year)]]
    /\ raised' = "none"
    /\ UNCHANGED <<credit, payments, transactions, today, credit_numbers>>

\* an INSERT that no constraint on credit_number stops
credit_insert_unchecked(r) ==
    /\ reqs[r].pc = "numbered"
    /\ credit_numbers' = Append(credit_numbers, reqs[r].credit_number)
    /\ raised' = "none"
    /\ reqs' = [reqs EXCEPT ![r] = IdleReq]
    /\ UNCHANGED <<credit, payments, transactions, today>>

\* super().save() of the new credit: the INSERT, refused with IntegrityError
\* when the number is already in the unique column
credit_insert(r) ==
    /\ reqs[r].pc = "numbered"
    /\ IF \E i \in 1..Len(credit_numbers) : credit_numbers[i] = reqs[r].credit_number
       THEN /\ raised' = "IntegrityError"
            /\ UNCHANGED credit_numbers
       ELSE /\ credit_numbers' = Append(credit_numbers, reqs[r].credit_number)
            /\ raised' = "none"
    /\ reqs' = [reqs EXCEPT ![r] = IdleReq]
    /\ UNCHANGED <<credit, payments, transactions, today>>

\* datetime.now().year moves on to the next year
new_year ==
    /\ today.year < LastYear
    /\ today' = Date(today.year + 1, 1, 1)
    /\ raised' = "none"
    /\ UNCHANGED <<credit, payments, transactions, reqs, credit_numbers>>

NextNumber ==
    \/ number_generate(1)
    \/ number_generate(2)
    \/ credit_insert(1)
    \/ credit_insert(2)
    \/ new_year

SpecNumber == Init /\ [][NextNumber]_vars

----------------------------------------------------------------------------
(* Payments and late interest long after the deadline *)

\* the dates the clock takes after the first quarter
LateDays == {Date(2024, 4, 10), Date(2024, 6, 10)}

\* date.today() moves on to one of the late dates
advance_time_late ==
    /\ \E d \in LateDays : Ordinal(d) > Ordinal(today) /\ today' = d
    /\ raised' = "none"
    /\ UNCHANGED <<credit, payments, transactions, reqs, credit_numbers>>

\* a disbursed credit of one installment, nothing paid yet
InitLate ==
    /\ today = Date(2024, 1, 10)
    /\ \E start \in {ConcStart(1, today)} :
          /\ credit = start.credit
          /\ payments = start.payments
    /\ transactions = << >>
    /\ raised = "none"
    /\ reqs = [r \in Requests |-> IdleReq]
    /\ credit_numbers = << >>

NextLate ==
    \/ apply_payment
    \/ apply_late_interest_action
    \/ advance_time
    \/ advance_time_late

SpecLate == InitLate /\ [][NextLate]_vars

----------------------------------------------------------------------------
(* The installments of a long credit paid one after another, each in full *)

\* the oldest installment that is not PAID (0: every installment is PAID)
OldestUnpaid(rows) ==
    IF \A k \in 1..Len(rows) : rows[k].status = "PAID"
    THEN 0
    ELSE CHOOSE k \in 1..Len(rows) :
            /\ rows[k].status # "PAID"
            /\ \A j \in 1..(k - 1) : rows[j].status = "PAID"

\* Payment.apply_payment(amount) on the oldest unpaid installment, with the
\* exact amount that is left of it
apply_payment_in_order ==
    /\ Len(transactions) < Len(payments)
    /\ \E k \in {OldestUnpaid(payments)} \cap 1..Len(payments) :
          \E amount \in {remaining_total(payments[k])} :
             \E r \in {ApplyPaymentResult(credit, payments, k, amount, today)} :
                /\ payments' = r.payments
                /\ transactions' = Append(transactions, r.transaction)
                /\ credit' = r.credit
                /\ raised' = r.raised
    /\ UNCHANGED <<today, reqs, credit_numbers>>

\* a disbursed credit of a long term, nothing paid yet
InitLongPaid ==
    /\ today = Date(2024, 1, 10)
    /\ \E term \in LongTerms :
          \E start \in {ConcStart(term, today)} :
             /\ credit = start.credit
             /\ payments = start.payments
    /\ transactions = << >>
    /\ raised = "none"
    /\ reqs = [r \in Requests |-> IdleReq]
    /\ credit_numbers = << >>

NextLongPaid ==
    \/ apply_payment_in_order
    \/ advance_time

SpecLongPaid == InitLongPaid /\ [][NextLongPaid]_vars

----------------------------------------------------------------------------
(* The lifecycle operations of the admin, with payments in between *)

NextLifecycle ==
    \/ approve_credits
    \/ reject_credits
    \/ save_credit
    \/ disburse_credits
    \/ regenerate_schedules
    \/ apply_payment
    \/ advance_time

SpecLifecycle == Init /\ [][NextLifecycle]_vars

----------------------------------------------------------------------------
(* Properties *)

\* the installment a step of apply_payment acted on
PaidInstallment == transactions'[Len(transactions')].payment

\* C1: after any sequence of payments on a credit with a schedule, the balance
\* is the approved principal minus the capital paid over all installments
C1_BalanceIsPrincipalMinusPaidCapital ==
    payments # << >> =>
        credit.balance = credit.approved_amount
                         - SumField(payments, "paid_capital", Len(payments))

\* C2: the five-way breakdown of every recorded transaction sums to the amount
\* received
C2_BreakdownSumsToAmount ==
    \A i \in 1..Len(transactions) : total_applied(transactions[i]) = transactions[i].amount

\* C3: apply_payment is all-or-nothing: a call that fails leaves the
\* installments, the transactions and the credit as they were
C3_ApplyPaymentAtomic ==
    [][(apply_payment /\ raised' # "none")
          => (payments' = payments /\ transactions' = transactions /\ credit' = credit)]_vars

\* the greatest days_overdue over the installments that are not paid
MaxOverdueOfUnpaid(rows, date_today) ==
    LET days == {days_overdue(rows[i], date_today) :
                   i \in {j \in 1..Len(rows) : rows[j].status # "PAID"}} \cup {0}
    IN  CHOOSE m \in days : \A o \in days : o <= m

\* the status section 4.5 derives from the balance and the overdue days
DerivedStatus(c, rows, date_today) ==
    IF c.balance <= 0 THEN "PAID_OFF"
    ELSE IF MaxOverdueOfUnpaid(rows, date_today) >= 30 THEN "DEFAULTED"
    ELSE IF MaxOverdueOfUnpaid(rows, date_today) >= 1 THEN "PAST_DUE"
    ELSE "ACTIVE"

\* C4: a status re-evaluation on a credit with installments completes normally
\* and leaves the status derived from the balance and the overdue days
C4_ReevaluationDerivesStatus ==
    [][((update_statuses \/ apply_payment) /\ payments' # << >>)
          => (raised' = "none"
              /\ credit'.status = DerivedStatus(credit', payments', today'))]_vars

\* C5: the cash goes to late interest, interest, aval, IVA and capital in that
\* order, each receiving min(its remaining due, the cash left)
C5_WaterfallOrder ==
    [][apply_payment =>
          LET p == payments[PaidInstallment]
              t == transactions'[Len(transactions')]
              c1 == t.amount - t.applied_to_late_interest
              c2 == c1 - t.applied_to_interest
              c3 == c2 - t.applied_to_aval
              c4 == c3 - t.applied_to_iva
          IN  /\ t.applied_to_late_interest = Min(remaining_late_interest(p), t.amount)
              /\ t.applied_to_interest = Min(remaining_interest(p), c1)
              /\ t.applied_to_aval = Min(remaining_aval(p), c2)
              /\ t.applied_to_iva = Min(remaining_iva(p), c3)
              /\ t.applied_to_capital = Min(remaining_capital(p), c4)]_vars

PaidFields ==
    {"paid_capital", "paid_interest", "paid_aval", "paid_iva_aval",
     "paid_late_interest", "paid_total"}

RemainingAllNonNegative(p) ==
    /\ remaining_capital(p) >= 0
    /\ remaining_interest(p) >= 0
    /\ remaining_aval(p) >= 0
    /\ remaining_iva(p) >= 0
    /\ remaining_late_interest(p) >= 0

\* C6: apply_payment lowers no paid field of the installment and makes no
\* remaining amount negative, whatever the amount
C6_PaidNeverDecreases ==
    [][apply_payment =>
          LET before == payments[PaidInstallment]
              after == payments'[PaidInstallment]
          IN  /\ \A f \in PaidFields : after[f] >= before[f]
              /\ RemainingAllNonNegative(before) => RemainingAllNonNegative(after)]_vars

\* C7: every remaining component of every installment, unpaid applied late
\* interest included, is non-negative
C7_RemainingNonNegative ==
    \A i \in 1..Len(payments) : RemainingAllNonNegative(payments[i])

\* C9: the scheduled capital of a generated schedule sums to the approved
\* principal
C9_ScheduledCapitalSumsToPrincipal ==
    payments # << >> =>
        SumField(payments, "scheduled_capital", Len(payments)) = credit.approved_amount

\* C10: a generated schedule has approved_term installments numbered 1..N
C10_InstallmentCountIsTerm ==
    payments # << >> =>
        /\ Len(payments) = credit.approved_term
        /\ \A i \in 1..Len(payments) : payments[i].payment_number = i

\* a schedule of the longest term has been generated
C10_Witness == payments # << >> /\ credit.approved_term = MaxTerm

\* the installments and the balance after request `first` then request
\* `second`, each run alone from the disbursed credit
SerialOutcome(first, second) ==
    LET start == ConcStart(credit.approved_term, today)
        a == ApplyPaymentResult(start.credit, start.payments,
                                reqs[first].k, reqs[first].amount, today)
        b == ApplyPaymentResult(a.credit, a.payments,
                                reqs[second].k, reqs[second].amount, today)
    IN  [payments |-> b.payments, balance |-> b.credit.balance]

\* C8: concurrent apply_payment calls are serialized: when both have finished,
\* the installments and the balance are those of one of the serial orders
C8_ConcurrentPaymentsSerialized ==
    (\A r \in Requests : reqs[r].pc = "done") =>
        \E first \in Requests : \E second \in Requests \ {first} :
           /\ payments = SerialOutcome(first, second).payments
           /\ credit.balance = SerialOutcome(first, second).balance

\* the rates Credit.save copies from the rate configuration are set
RatesSet(c) ==
    c.base_interest_rate.n # 0 /\ c.aval_rate.n # 0 /\ c.iva_rate.n # 0

\* C11: a pending credit that is approved and then disbursed ends DISBURSED
\* with its rates populated, its balance equal to the approved principal and
\* a schedule of approved_term installments
C11_ApprovedThenDisbursed ==
    [][disburse_credits =>
          /\ credit'.status = "DISBURSED"
          /\ RatesSet(credit')
          /\ credit'.balance = credit'.approved_amount
          /\ Len(payments') = credit'.approved_term]_vars

\* the columns of an installment written when the schedule is generated
ScheduleFields ==
    {"payment_number", "due_date", "payment_deadline", "period_days",
     "scheduled_capital", "scheduled_interest", "scheduled_aval",
     "scheduled_iva_aval", "scheduled_total", "balance_before"}

\* the schedule as generated: the generated columns of every installment
ScheduleOf(rows) ==
    [i \in 1..Len(rows) |-> [f \in ScheduleFields |-> rows[i][f]]]

\* C12: once a schedule exists, no step other than an explicit regeneration
\* creates, deletes or regenerates installments: the generated columns stay,
\* and a save or a status refresh leaves every installment as it is
C12_ScheduleGeneratedOnce ==
    [][(payments # << >> /\ ~regenerate_schedules) =>
          /\ ScheduleOf(payments') = ScheduleOf(payments)
          /\ (save_credit \/ save_credit_disbursed \/ update_statuses)
                => payments' = payments]_vars

\* a schedule that has received a payment and late interest while the credit
\* is in status DISBURSED
C12_Witness ==
    /\ payments # << >>
    /\ transactions # << >>
    /\ credit.status = "DISBURSED"
    /\ \E i \in 1..Len(payments) : payments[i].applied_late_interest > 0

\* every installment's scheduled capital is paid in full
AllCapitalPaid(rows) ==
    \A i \in 1..Len(rows) : rows[i].paid_capital = rows[i].scheduled_capital

\* C13: once the recorded payments pay the scheduled capital of every
\* installment, the balance is 0 and the status is PAID_OFF
C13_FullPayoffIsPaidOff ==
    [][(apply_payment /\ AllCapitalPaid(payments')) =>
          (credit'.balance = 0 /\ credit'.status = "PAID_OFF")]_vars

\* C14: PAID_OFF is terminal: no payment, late-interest application or status
\* re-evaluation changes the status of a credit that is PAID_OFF
C14_PaidOffIsTerminal ==
    [][(credit.status = "PAID_OFF"
        /\ (apply_payment \/ apply_late_interest_action \/ update_statuses))
          => credit'.status = "PAID_OFF"]_vars

\* a PAID_OFF credit whose first payment paid the whole principal and which
\* received a second payment afterwards, past the deadline of an installment
C14_Witness ==
    /\ credit.status = "PAID_OFF"
    /\ Len(transactions) = 2
    /\ transactions[1].applied_to_capital = credit.approved_amount
    /\ \E i \in 1..Len(payments) :
          Ordinal(today) > Ordinal(EffectiveDeadline(payments[i]))

\* C15: a DEFAULTED credit with positive balance whose re-evaluation finds no
\* overdue installment that is not paid moves directly to ACTIVE
C15_DefaultedRecoversToActive ==
    [][((update_statuses \/ apply_payment)
        /\ credit.status = "DEFAULTED"
        /\ credit'.balance > 0
        /\ MaxOverdueOfUnpaid(payments', today') = 0)
          => (credit'.status = "ACTIVE" /\ raised' = "none")]_vars

\* an ACTIVE credit with positive balance all of whose installments past
\* their deadline are paid, one of them 30 days or more after its deadline
C15_Witness ==
    /\ credit.status = "ACTIVE"
    /\ credit.balance > 0
    /\ MaxOverdueOfUnpaid(payments, today) = 0
    /\ \E i \in 1..Len(payments) :
          /\ payments[i].status = "PAID"
          /\ DaysBetween(payments[i].payment_date, EffectiveDeadline(payments[i])) >= 30

\* C16: a status refresh writes only when the computed status differs from
\* the current one, a write changes only the status column, and a second
\* refresh right after it, with nothing changed, writes nothing
C16_RefreshIdempotent ==
    [][update_statuses =>
          /\ \A f \in CreditFields \ {"status"} : credit'[f] = credit[f]
          /\ update_status_from_payments(credit, credit, payments, today).wrote
                => credit'.status # credit.status
          /\ ~update_status_from_payments(credit', credit', payments', today').wrote]_vars

\* a credit set to DEFAULTED by a status refresh (no payment was recorded)
C16_Witness == credit.status = "DEFAULTED" /\ transactions = << >>

\* the installment status section 4.4 derives from the current state
DerivedPaymentStatus(p, date_today) ==
    IF p.paid_total >= p.scheduled_total + p.applied_late_interest - tolerance
    THEN "PAID"
    ELSE IF p.paid_total > 0 THEN "PARTIAL"
    ELSE IF Ordinal(date_today) > Ordinal(EffectiveDeadline(p)) THEN "OVERDUE"
    ELSE "PENDING"

\* C17: after apply_payment or apply_late_interest has changed an installment,
\* its stored status is the one derived from its current state
C17_StatusDerivedAfterMutation ==
    [][(apply_payment \/ apply_late_interest_action) =>
          \A i \in 1..Len(payments') :
             payments'[i] # payments[i]
                => payments'[i].status = DerivedPaymentStatus(payments'[i], today')]_vars

\* C18: a payment smaller than the remaining late interest plus the remaining
\* interest goes to late interest first and then to interest, leaves aval,
\* IVA, capital and the balance untouched, and makes the installment PARTIAL
C18_PartialPaymentStopsAtInterest ==
    [][apply_payment =>
          LET p == payments[PaidInstallment]
              q == payments'[PaidInstallment]
              t == transactions'[Len(transactions')]
          IN  (0 < t.amount
               /\ t.amount < remaining_late_interest(p) + remaining_interest(p))
                 => /\ t.applied_to_late_interest
                         = Min(t.amount, remaining_late_interest(p))
                    /\ t.applied_to_interest
                         = t.amount - t.applied_to_late_interest
                    /\ q.paid_late_interest
                         = p.paid_late_interest + t.applied_to_late_interest
                    /\ q.paid_interest = p.paid_interest + t.applied_to_interest
                    /\ q.paid_aval = p.paid_aval
                    /\ q.paid_iva_aval = p.paid_iva_aval
                    /\ q.paid_capital = p.paid_capital
                    /\ credit'.balance = credit.balance
                    /\ q.status = "PARTIAL"]_vars

\* the amount calculate_late_interest owes on installment p as of `as_of`
\* at monthly rate `rate`, from the stored fields of p
LateInterestDue(p, as_of, rate) ==
    LET deadline == IF p.payment_deadline # NoDate THEN p.payment_deadline
                    ELSE p.due_date
        days_late == Ordinal(as_of) - Ordinal(deadline)
        unpaid == (p.scheduled_capital - p.paid_capital)
                  + (p.scheduled_interest - p.paid_interest)
                  + (p.scheduled_aval - p.paid_aval)
                  + (p.scheduled_iva_aval - p.paid_iva_aval)
                  + (p.applied_late_interest - p.paid_late_interest)
    IN  IF days_late <= 0 THEN 0
        ELSE 100 * RoundHalfUp(unpaid * rate.n * days_late, 100 * rate.d * 30)

\* C19: calculate_late_interest(as_of, rate) returns 0 when as_of is on or
\* before the effective deadline (payment_deadline, or due_date when there is
\* none); otherwise round_half_up(remaining_total * (rate/100/30) * days_late)
\* with days_late = as_of - deadline and remaining_total the unpaid capital,
\* interest, aval, IVA and applied-but-unpaid late interest.
C19_LateInterestFormula ==
    [][calculate_late_interest_preview =>
          reqs'[1].result = LateInterestDue(payments[reqs'[1].k],
                                            reqs'[1].as_of_date,
                                            reqs'[1].rate)]_vars

\* a preview after the deadline of an installment that carries applied and
\* unpaid late interest and a partial payment
C19_Witness ==
    /\ reqs[1].pc = "previewed"
    /\ reqs[1].result > 0
    /\ payments[reqs[1].k].applied_late_interest
          > payments[reqs[1].k].paid_late_interest
    /\ payments[reqs[1].k].paid_total > 0
    /\ Ordinal(reqs[1].as_of_date) > Ordinal(EffectiveDeadline(payments[reqs[1].k]))
    /\ reqs[1].result = LateInterestDue(payments[reqs[1].k], reqs[1].as_of_date,
                                        reqs[1].rate)

\* C20: the late-interest preview (calculate_late_interest) leaves every field
\* of the installment, of its credit and of every transaction unchanged,
\* however many times it is called.
C20_PreviewMutatesNothing ==
    [][calculate_late_interest_preview =>
          /\ payments' = payments
          /\ credit' = credit
          /\ transactions' = transactions]_vars

\* a preview that returned a positive amount on a credit with a recorded
\* transaction, the installment's stored late interest still untouched
C20_Witness ==
    /\ reqs[1].pc = "previewed"
    /\ reqs[1].result > 0
    /\ transactions # << >>
    /\ payments[reqs[1].k].calculated_late_interest = 0
    /\ payments[reqs[1].k].applied_late_interest = 0
    /\ payments[reqs[1].k].late_interest_calculated_date = NoDate

\* the paid, scheduled and identifying fields of an installment
PaidAndScheduled(p) ==
    <<p.paid_capital, p.paid_interest, p.paid_aval, p.paid_iva_aval,
      p.paid_late_interest, p.paid_total, p.scheduled_capital,
      p.scheduled_interest, p.scheduled_aval, p.scheduled_iva_aval,
      p.scheduled_total>>

\* installment p after late interest `amount` was recomputed on `date_today`
LateInterestStamped(p, amount, date_today) ==
    IF amount > 0
    THEN [p EXCEPT !.applied_late_interest = amount,
                   !.calculated_late_interest = amount,
                   !.late_interest_calculated_date = date_today,
                   !.late_interest_applied_date = date_today]
    ELSE p

\* C21: apply_late_interest recomputes the late interest; a result > 0 is
\* stored as applied_late_interest and calculated_late_interest with both
\* dates stamped, a result of 0 changes nothing on the installment; the
\* paid_* fields, the scheduled_* fields and the credit balance are unchanged.
C21_ApplyLateInterestFrame ==
    [][apply_late_interest_action =>
          /\ \E k \in 1..Len(payments), rate \in LateRates :
                payments' = [payments EXCEPT ![k] =
                               LateInterestStamped(payments[k],
                                  LateInterestDue(payments[k], today, rate), today)]
          /\ \A i \in 1..Len(payments) :
                PaidAndScheduled(payments'[i]) = PaidAndScheduled(payments[i])
          /\ credit'.balance = credit.balance]_vars

\* late interest applied on 2024-02-10 to a partly paid installment
C21_Witness ==
    \E k \in 1..Len(payments) :
       /\ payments[k].applied_late_interest > 0
       /\ payments[k].calculated_late_interest = payments[k].applied_late_interest
       /\ payments[k].late_interest_applied_date = Date(2024, 2, 10)
       /\ payments[k].late_interest_calculated_date = Date(2024, 2, 10)
       /\ payments[k].paid_total > 0
       /\ payments[k].paid_late_interest = 0

\* the late-interest fields of an installment
LateInterestFields(p) ==
    <<p.applied_late_interest, p.calculated_late_interest,
      p.late_interest_calculated_date, p.late_interest_applied_date>>

\* C22: late interest is never applied automatically: apply_payment, the
\* late-interest preview, credit status re-evaluation and the passing of time
\* leave applied_late_interest, calculated_late_interest and the late-interest
\* dates of every installment unchanged.
C22_LateInterestOnlyOnRequest ==
    [][(apply_payment \/ calculate_late_interest_preview
        \/ update_statuses \/ advance_time) =>
          /\ Len(payments') = Len(payments)
          /\ \A i \in 1..Len(payments) :
                LateInterestFields(payments'[i]) = LateInterestFields(payments[i])]_vars

\* 2024-03-10: an installment 39 days past its deadline, partly paid on that
\* day, the credit re-evaluated to DEFAULTED, and no late interest on it
C22_Witness ==
    /\ today = Date(2024, 3, 10)
    /\ credit.status = "DEFAULTED"
    /\ Len(transactions) > 0
    /\ transactions[1].transaction_date = Date(2024, 3, 10)
    /\ transactions[1].amount > 0
    /\ payments[transactions[1].payment].status = "PARTIAL"
    /\ LateInterestFields(payments[transactions[1].payment]) = <<0, 0, NoDate, NoDate>>
    /\ days_overdue(payments[transactions[1].payment], today) >= 30

\* C23: apply_payment with a non-positive amount is rejected: no
\* PaymentTransaction is created and the installment's paid fields and status
\* and the credit's balance and status are unchanged.
C23_NonPositiveAmountRejected ==
    [][apply_payment =>
          \/ transactions'[Len(transactions')].amount > 0
          \/ /\ transactions' = transactions
             /\ payments' = payments
             /\ credit' = credit]_vars

\* the approved amount, the approved term or one of the three rates is missing
TermsMissing(c) ==
    \/ c.approved_amount = 0 \/ c.approved_term = 0
    \/ c.base_interest_rate.n = 0 \/ c.aval_rate.n = 0 \/ c.iva_rate.n = 0

\* C24: schedule generation on a credit whose approved amount, approved term
\* or one of the three rates is missing fails with IncompleteCreditTerms and
\* writes nothing: the stored installments are as before the call.
C24_IncompleteTermsFailWithoutWrites ==
    [][(disburse_credits \/ regenerate_schedules) /\ TermsMissing(credit') =>
          /\ raised' = "IncompleteCreditTerms"
          /\ payments' = payments]_vars

\* the installments and balance after the payment of request 1 applied alone
\* to the schedule as generated: the outcome of both serial orders (run second,
\* the regeneration is refused by the recorded transaction; run first, it
\* recreates the same schedule)
PaidAlone ==
    ApplyPaymentResult(ConcStart(credit.approved_term, today).credit,
                       ConcStart(credit.approved_term, today).payments,
                       reqs[1].k, reqs[1].amount, today)

\* C25: schedule regeneration and payment application on the same credit
\* exclude each other: in every interleaving, once both have ended, the state
\* is that of running them one after the other, with exactly approved_term
\* installments and every PaymentTransaction on an existing installment.
C25_RegenerationExcludesPayment ==
    (reqs[1].pc \in {"done", "failed"} /\ reqs[2].pc \in {"done", "failed"}) =>
        /\ Len(payments) = credit.approved_term
        /\ \A i \in 1..Len(transactions) :
              \E j \in 1..Len(payments) :
                 payments[j].payment_number = transactions[i].payment
        /\ reqs[1].pc = "done"
        /\ payments = PaidAlone.payments
        /\ credit.balance = PaidAlone.credit.balance

\* the amounts and dates an installment receives at schedule generation
GeneratedFields(p) ==
    <<p.scheduled_capital, p.scheduled_interest, p.scheduled_aval,
      p.scheduled_iva_aval, p.scheduled_total, p.due_date, p.payment_deadline,
      p.balance_before>>

\* C26: the five scheduled amounts of an installment, its due date, deadline
\* and balance_before are fixed at schedule generation: apply_payment,
\* apply_late_interest and credit status re-evaluation never change them.
C26_ScheduledFieldsFixed ==
    [][(apply_payment \/ apply_late_interest_action \/ update_statuses) =>
          /\ Len(payments') = Len(payments)
          /\ \A i \in 1..Len(payments) :
                GeneratedFields(payments'[i]) = GeneratedFields(payments[i])]_vars

\* an installment that received capital and carries late interest, on a
\* credit re-evaluated to DEFAULTED, with the schedule as generated
C26_Witness ==
    /\ credit.status = "DEFAULTED"
    /\ \E k \in 1..Len(payments) :
          /\ payments[k].paid_capital > 0
          /\ payments[k].applied_late_interest > 0
    /\ \A i \in 1..Len(payments) :
          GeneratedFields(payments[i])
             = GeneratedFields(ConcStart(2, Date(2024, 1, 10)).payments[i])

\* C27: PaymentTransactions are append-only: apply_payment, apply_late_interest,
\* status re-evaluation and schedule regeneration never update or delete an
\* existing PaymentTransaction; regenerating the schedule of a credit whose
\* installments have transactions does not remove them.
C27_TransactionsAppendOnly ==
    [][(apply_payment \/ apply_late_interest_action \/ update_statuses
        \/ regenerate_schedules) =>
          /\ Len(transactions') >= Len(transactions)
          /\ SubSeq(transactions', 1, Len(transactions)) = transactions
          /\ \A i \in 1..Len(transactions') :
                transactions'[i].payment \in 1..Len(payments')]_vars

\* a regeneration refused on a credit with two recorded transactions
C27_Witness ==
    /\ raised = "ProtectedError"
    /\ Len(transactions) = 2
    /\ payments # << >>

\* C29: resolve(reference_date) returns the active config of the reference
\* date's (year, month); if there is none, the active config with the
\* greatest effective date <= reference date; if there is none of either, it
\* fails with NoActiveRateConfig.
C29_ResolveRateConfig ==
    reqs[1].pc = "resolved" =>
       LET configs == reqs[1].configs
           ref == reqs[1].reference_date
           active == {c \in configs : c.is_active}
           exact == {c \in active : c.year = ref.year /\ c.month = ref.month}
           earlier == {c \in active : Ordinal(c.effective_date) <= Ordinal(ref)}
       IN  IF exact # {} THEN reqs[1].result \in {c.id : c \in exact}
           ELSE IF earlier # {}
                THEN \E c \in earlier :
                        /\ reqs[1].result = c.id
                        /\ \A o \in earlier :
                              Ordinal(o.effective_date) <= Ordinal(c.effective_date)
                ELSE raised = "NoActiveRateConfig"

\* the three rates of a credit
CapturedRates(c) == <<c.base_interest_rate, c.aval_rate, c.iva_rate>>

\* C28: once the base, aval and IVA rates of a credit have been captured at
\* approval, no later operation (saves while APPROVED, a change of approved
\* amount, a change or replacement of the rate config, disbursement,
\* regeneration, payment application) changes them.
C28_RatesFrozenOnceCaptured ==
    [][RatesSet(credit) => CapturedRates(credit') = CapturedRates(credit)]_vars

\* rates captured from configuration 1 for 1,000.00; the amount then changed
\* to 1,000.40 and the configuration replaced; the credit disbursed and a
\* payment applied
C28_Witness ==
    /\ credit.status = "ACTIVE"
    /\ credit.approved_amount = 100040
    /\ credit.interest_rate_config = 2
    /\ CapturedRates(credit) = <<[n |-> 1, d |-> 20], [n |-> 2, d |-> 25],
                                 [n |-> 19, d |-> 100]>>
    /\ transactions # << >>

\* C30: for any principal P and term n >= 1, pmt(P, 0, n) equals P/n rounded
\* half-up to a whole currency unit.
C30_PmtZeroRate ==
    reqs[1].pc = "pmt" =>
       /\ reqs[1].result % 100 = 0
       /\ 2 * reqs[1].n * reqs[1].result <= 2 * reqs[1].principal + 100 * reqs[1].n
       /\ 2 * reqs[1].n * reqs[1].result > 2 * reqs[1].principal - 100 * reqs[1].n

\* 10.00 over 4 months: 2.50 a month, returned as 3.00
C30_Witness ==
    /\ reqs[1].pc = "pmt"
    /\ reqs[1].principal = 1000
    /\ reqs[1].n = 4
    /\ reqs[1].result = 300

----------------------------------------------------------------------------
(* The dates of a generated schedule *)

\* the last day of month m of year y, written out month by month
LastDayOf(y, m) ==
    Date(y, m, IF m \in {1, 3, 5, 7, 8, 10, 12} THEN 31
               ELSE IF m # 2 THEN 30
               ELSE IF y % 4 = 0 /\ (y % 100 # 0 \/ y % 400 = 0) THEN 29 ELSE 28)

\* the last day of the month that follows month m of year y
LastDayOfFollowing(y, m) ==
    IF m = 12 THEN LastDayOf(y + 1, 1) ELSE LastDayOf(y, m + 1)

\* the end of the first period for a disbursement on `start`
FirstPeriodEnd(start) ==
    IF start.day <= 15 THEN LastDayOf(start.year, start.month)
    ELSE LastDayOfFollowing(start.year, start.month)

\* C31: in a generated schedule the first installment is due on the last day
\* of the disbursement month when the disbursement day is <= 15 and on the
\* last day of the following month otherwise (December rolling into January
\* of the next year), and its period_days is the number of days from the
\* disbursement date to that date.
C31_FirstDueDate ==
    payments # << >> =>
       /\ payments[1].due_date = FirstPeriodEnd(credit.disbursement_date)
       /\ payments[1].period_days =
             Ordinal(FirstPeriodEnd(credit.disbursement_date))
             - Ordinal(credit.disbursement_date)

\* a schedule generated for a disbursement on 16 December: the first
\* installment is due on 31 January of the next year, 46 days later
C31_Witness ==
    /\ payments # << >>
    /\ credit.disbursement_date = Date(2024, 12, 16)
    /\ payments[1].due_date = Date(2025, 1, 31)
    /\ payments[1].period_days = 46

\* the deadline the company's payment day d gives for an installment due on
\* `due`: day d of the following month, or that month's last day if shorter
CompanyDeadline(due, d) ==
    LET last == LastDayOfFollowing(due.year, due.month)
    IN  Date(last.year, last.month, IF d < last.day THEN d ELSE last.day)

\* C32: every installment of a LIBRANZA credit whose company has a payment
\* day d has its payment deadline on day min(d, last day of month) of the
\* month following its due date; every installment of any other credit
\* (non-LIBRANZA, or no company payment day) has its deadline on its due
\* date; so no deadline is earlier than its due date.
C32_PaymentDeadline ==
    \A k \in 1..Len(payments) :
       /\ payments[k].payment_deadline =
             IF credit.credit_type = "LIBRANZA" /\ credit.company_payment_day # 0
             THEN CompanyDeadline(payments[k].due_date, credit.company_payment_day)
             ELSE payments[k].due_date
       /\ Ordinal(payments[k].payment_deadline) >= Ordinal(payments[k].due_date)

\* a LIBRANZA credit whose company pays on day 31: the installment due on
\* 31 January has its deadline on 29 February, the one due on 31 March on
\* 30 April
C32_Witness ==
    /\ Len(payments) = 3
    /\ credit.credit_type = "LIBRANZA" /\ credit.company_payment_day = 31
    /\ payments[1].due_date = Date(2024, 1, 31)
    /\ payments[1].payment_deadline = Date(2024, 2, 29)
    /\ payments[3].due_date = Date(2024, 3, 31)
    /\ payments[3].payment_deadline = Date(2024, 4, 30)

----------------------------------------------------------------------------
(* Credit numbers *)

\* the highest sequence among the numbers of a year, 0 if the year has none
MaxSequence(rows, year) ==
    LET seqs == {last_number(rows[i]) : i \in {j \in 1..Len(rows) : rows[j].year = year}}
    IN  IF seqs = {} THEN 0 ELSE CHOOSE m \in seqs : \A x \in seqs : x <= m

\* CR-<year>-<sequence> with the sequence written in 5 digits, zero-padded
FiveDigits(credit_number) ==
    /\ Len(credit_number.digits) = 5
    /\ last_number(credit_number) >= 1

\* C33: every newly created credit receives the identifier CR-<year>-<sequence>,
\* the sequence zero-padded to 5 digits and equal to the maximum existing
\* sequence of that year plus 1 (1 if none exists), and no two credits hold the
\* same identifier, also when two credits are created concurrently.
C33_CreditNumbers ==
    [][/\ \A r \in Requests :
             (reqs[r].pc = "idle" /\ reqs'[r].pc = "numbered")
                => /\ reqs'[r].credit_number.year = today.year
                   /\ FiveDigits(reqs'[r].credit_number)
       /\ Len(credit_numbers') = Len(credit_numbers) + 1 =>
             LET new == credit_numbers'[Len(credit_numbers')]
             IN  /\ \E r \in Requests :
                       /\ reqs[r].pc = "numbered"
                       /\ reqs'[r].pc = "idle"
                       /\ reqs[r].credit_number = new
                 /\ FiveDigits(new)
                 /\ last_number(new) = MaxSequence(credit_numbers, new.year) + 1
       /\ \A i, j \in 1..Len(credit_numbers') :
             i # j => credit_numbers'[i] # credit_numbers'[j]]_vars

\* two requests generated CR-2024-00002 from the same table; one was stored,
\* the other refused, and the table holds 00001 and 00002 once each
C33_Witness ==
    /\ raised = "IntegrityError"
    /\ Len(credit_numbers) = 2
    /\ credit_numbers[1] = [year |-> 2024, digits |-> <<0, 0, 0, 0, 1>>]
    /\ credit_numbers[2] = [year |-> 2024, digits |-> <<0, 0, 0, 0, 2>>]

----------------------------------------------------------------------------
(* The amounts of a generated schedule *)

\* base installment + monthly aval + monthly IVA on the aval
MonthlyTotal(c) == c.monthly_payment_base + c.monthly_aval + c.monthly_iva_aval

\* C34: in a generated schedule with term N >= 3, every installment k with
\* 2 <= k <= N-1 has scheduled_total equal to the credit's monthly total
\* installment, and the scheduled capital of installment N equals the balance
\* remaining after installment N-1.
C34_MiddleInstallments ==
    Len(payments) >= 3 =>
       /\ \A k \in 2..(Len(payments) - 1) :
             payments[k].scheduled_total = MonthlyTotal(credit)
       /\ payments[Len(payments)].scheduled_capital =
             payments[Len(payments) - 1].balance_before
             - payments[Len(payments) - 1].scheduled_capital

\* a schedule of three installments: the second is the monthly total, the
\* third takes a positive remaining balance
C34_Witness ==
    /\ Len(payments) = 3
    /\ credit.approved_term = 3
    /\ payments[2].scheduled_total = MonthlyTotal(credit)
    /\ payments[3].scheduled_capital > 0
    /\ payments[3].scheduled_capital = payments[3].balance_before
    /\ payments[3].scheduled_capital # payments[2].scheduled_capital

\* C35: in every generated schedule the scheduled capital of each installment
\* is >= 0 and <= its balance_before, so that the running balance is never
\* negative before the final installment and the final capital is never
\* negative.
C35_CapitalWithinBalance ==
    \A k \in 1..Len(payments) :
       /\ payments[k].scheduled_capital >= 0
       /\ payments[k].scheduled_capital <= payments[k].balance_before

----------------------------------------------------------------------------
(* The paid amounts and the statuses after payments *)

\* the five paid components of an installment, added up
PaidComponents(p) ==
    p.paid_late_interest + p.paid_interest + p.paid_aval + p.paid_iva_aval
    + p.paid_capital

\* C36: after any sequence of apply_payment calls every installment has
\* paid_total equal to the sum of its five paid components, also when a
\* payment exceeded the installment's remaining total.
C36_PaidTotalIsSumOfComponents ==
    \A k \in 1..Len(payments) : payments[k].paid_total = PaidComponents(payments[k])

\* C37: whenever the stored status of an installment is PAID, its
\* remaining_total (unpaid capital, interest, aval, IVA and applied but unpaid
\* late interest) is at most the tolerance of 10 currency units, after any
\* sequence of apply_payment and apply_late_interest calls.
C37_PaidWithinTolerance ==
    \A k \in 1..Len(payments) :
       payments[k].status = "PAID" => remaining_total(payments[k]) <= tolerance

\* an installment with nothing left of its interest, aval and IVA on aval
ChargesSettled(p) ==
    /\ remaining_interest(p) = 0
    /\ remaining_aval(p) = 0
    /\ remaining_iva(p) = 0

\* C38: when a payment leaves the credit PAID_OFF, every installment of the
\* credit has zero remaining interest, aval and IVA on aval.
C38_PaidOffSettlesCharges ==
    [][((apply_payment \/ apply_payment_in_order) /\ credit'.status = "PAID_OFF")
          => \A k \in 1..Len(payments') : ChargesSettled(payments'[k])]_vars

\* a step that replaces the schedule of a credit, or is refused doing so,
\* with no new transaction and no change of status
ScheduleRegenerated ==
    /\ transactions' = transactions
    /\ credit'.status = credit.status
    /\ \/ payments' # payments
       \/ raised' \in {"ProtectedError", "TypeError"}

\* C39: a credit becomes APPROVED or REJECTED only from PENDING and DISBURSED
\* only from APPROVED, and its schedule is regenerated only while it is
\* DISBURSED or ACTIVE; so a REJECTED credit never becomes APPROVED or
\* DISBURSED and a PENDING credit is never disbursed.
C39_LifecycleGuards ==
    [][/\ (credit'.status = "APPROVED" /\ credit.status # "APPROVED")
             => credit.status = "PENDING"
       /\ (credit'.status = "REJECTED" /\ credit.status # "REJECTED")
             => credit.status = "PENDING"
       /\ (credit'.status = "DISBURSED" /\ credit.status # "DISBURSED")
             => credit.status = "APPROVED"
       /\ ScheduleRegenerated => credit.status \in {"DISBURSED", "ACTIVE"}
       /\ credit.status = "REJECTED"
             => credit'.status \notin {"APPROVED", "DISBURSED"}
       /\ credit.status = "PENDING" => credit'.status # "DISBURSED"]_vars

\* a credit that was approved, disbursed and paid on, on which
\* regenerate_schedules acted while it was ACTIVE
C39_Witness ==
    /\ credit.status = "ACTIVE"
    /\ credit.approval_date # NoDate
    /\ credit.disbursement_date # NoDate
    /\ Len(transactions) > 0
    /\ raised = "ProtectedError"

====
